---- MODULE Spec2Model ----
(***************************************************************************)
(* Website-Monitoring: the crawl-and-verification engine (Link, Image and  *)
(* Video checker, src/monitors) and the orchestrator that sequences the    *)
(* checkers (src/main.py), as state machines.                              *)
(*                                                                         *)
(*   Spec      one run() of one checker (checker \in CheckerNames).        *)
(*   SpecOrch  one run of WordPressMonitor in one of its run modes, the    *)
(*             checkers' run() abstracted to what it returns or raises.    *)
(*                                                                         *)
(* URLs are numbers, HTTP status codes and the status strings of the       *)
(* Finding details ('timeout', 'SSL_ERROR', 404, ...) are strings, a       *)
(* formatted message is the sequence of the pieces the f-string joins.     *)
(***************************************************************************)
EXTENDS Integers, Sequences, FiniteSets, TLC

(***************************************************************************)
(* Bounds of the model.                                                    *)
(***************************************************************************)
\* number of entries of critical_pages
NumPages == 3
\* how many fetches of one run may end other than in a fast 200 response
MaxFaults == 1
\* the largest retry.max_attempts tried
MaxAttemptsTried == 4
\* how many start requests the dashboard gets
MaxChecks == 3
\* the longest site-wide list a summary is built from
MaxFound == 21

(***************************************************************************)
(* The site under test.                                                    *)
(***************************************************************************)
CheckerNames == {"links", "images", "videos"}

\* critical_pages; page p is the path whose full URL is the number p
Pages == 1 .. NumPages

\* self.base_url ("/" is the first critical page)
BaseUrl == 1
\* the one URL of another host
ExternalUrl == 0
\* url=None of a site-wide Finding
NoUrl == -1
\* response_time=None
NoTime == -1

get_full_url(p) == p

_is_internal(u) == u # ExternalUrl

\* a list without its repetitions, first occurrences kept ("if full_url not in
\* [l['url'] for l in links]", seen_urls, seen_ids)
RECURSIVE Dedup(_)
Dedup(s) ==
    IF s = <<>> THEN <<>>
    ELSE LET front == Dedup(SubSeq(s, 1, Len(s) - 1))
             last  == s[Len(s)]
         IN IF \E k \in 1 .. Len(front) : front[k].url = last.url
            THEN front ELSE Append(front, last)

Ref(u, alt, type, vid) == [url |-> u, alt |-> alt, type |-> type, video_id |-> vid]

\* the anchors of page p in document order: the next page, a link to another
\* host and the home page
AnchorTags(p) ==
    << Ref((p % NumPages) + 1, "next", "a", ""),
       Ref(ExternalUrl, "partner", "a", ""),
       Ref(BaseUrl, "home", "a", "") >>

Anchors(p) == Dedup(AnchorTags(p))

\* the images of page p: no image on the last page, elsewhere the site logo,
\* without alt text, and the page's photo
ImageTags(p) ==
    IF p = NumPages /\ NumPages > 1 THEN <<>>
    ELSE << Ref(100, "", "img", ""), Ref(100 + p, "photo", "img", "") >>

Images(p) == Dedup(ImageTags(p))

\* the videos of page p: no video on the last page, elsewhere one YouTube
\* embed shared by the pages and one video of the page's own
VideoTags(p) ==
    IF p = NumPages /\ NumPages > 1 THEN <<>>
    ELSE << Ref(200, "", "youtube", "abc12345678"),
            Ref(200 + p, "", IF p % 2 = 1 THEN "html5" ELSE "vimeo",
                IF p % 2 = 1 THEN "" ELSE "76979871") >>

Videos(p) == Dedup(VideoTags(p))

\* where in its page a tag is: the link to the home page and the site logo are
\* in the <header>, the link to the other host and the shared YouTube embed in
\* the <footer>, everything else in the page's content
RegionOf(ref) ==
    CASE ref.alt = "home" \/ ref.url = 100    -> "header"
      [] ref.alt = "partner" \/ ref.url = 200 -> "footer"
      [] OTHER                                -> "content"

\* the pages whose content is inside a <main> element
HasMain(p) == p % 2 = 1

(***************************************************************************)
(* What a request can end in.                                              *)
(***************************************************************************)
Response(status, ms, ctype) ==
    [kind |-> "response", status |-> status, ms |-> ms, ctype |-> ctype, text |-> ""]

Raised(kind, text) ==
    [kind |-> kind, status |-> 0, ms |-> 0, ctype |-> "", text |-> text]

\* the outcome that uses none of the fault budget
OkFast(c) ==
    Response(200, 100, CASE c = "images" -> "image/png"
                         [] c = "videos" -> "video/mp4"
                         [] OTHER -> "text/html")

\* requests.exceptions.Timeout, SSLError, ConnectionError, and any other
\* exception with its str(e); "invalid_url" is the other exception of a URL that
\* urlparse rejects as well
Exceptions ==
    { Raised("timeout", "timed out"), Raised("ssl", "bad cert"),
      Raised("connection", "refused"), Raised("other", "too many redirects") }

VerifyOutcomes(c) ==
    { OkFast(c), Response(200, 4000, OkFast(c).ctype), Response(404, 100, "text/html"),
      Response(418, 100, "text/html") }
    \cup Exceptions
    \cup (CASE c = "links"  -> { Raised("invalid_url", "Invalid IPv6 URL") }
            [] c = "images" -> { Response(200, 100, "text/html"), Response(200, 100, "") }
            [] c = "videos" -> { Response(401, 100, ""), Response(403, 100, ""),
                                 Response(200, 100, "text/html") })

\* the page fetch: requests.get(url, timeout=15), or browser.navigate(url)
\* followed by get_page_source()
PageOutcomes == { OkFast("links"), Response(500, 100, "text/html"), Raised("connection", "refused") }

IsFault(c, o) == o # OkFast(c)


(***************************************************************************)
(* Findings and the entries of their details.                              *)
(***************************************************************************)
\* MonitorResult as add_result builds it; message is the message's template
Finding(monitor, status, severity, url, message, items, total, rt) ==
    [monitor_type |-> monitor, status |-> status, severity |-> severity,
     url |-> url, message |-> message, count |-> Len(items), items |-> items,
     total |-> total, response_time |-> rt, avg |-> rt]

\* a Finding whose details carry the page's average ('avg_response_time_ms',
\* 'avg_load_time_ms')
Averaged(f, avg_time) == [f EXCEPT !.avg = avg_time]

\* a Finding whose message states the number n (f'Found {len(...)} broken ...')
Counted(f, n) == [f EXCEPT !.count = n]

\* one entry of a broken/slow/missing-alt/valid list
Item(ref, status, msg, p, ms) ==
    [url |-> ref.url, text |-> ref.alt, status_code |-> status,
     status_message |-> msg, found_on_page |-> p, ms |-> ms]

LinkStatusMessages ==
    [s \in {400, 401, 403, 404, 405, 408, 410, 429, 500, 502, 503, 504} |->
        CASE s = 400 -> "Bad Request"
          [] s = 401 -> "Unauthorized"
          [] s = 403 -> "Forbidden - Access Denied"
          [] s = 404 -> "Not Found - Page does not exist"
          [] s = 405 -> "Method Not Allowed"
          [] s = 408 -> "Request Timeout"
          [] s = 410 -> "Gone - Resource permanently removed"
          [] s = 429 -> "Too Many Requests"
          [] s = 500 -> "Internal Server Error"
          [] s = 502 -> "Bad Gateway"
          [] s = 503 -> "Service Unavailable"
          [] OTHER   -> "Gateway Timeout"]

ImageStatusMessages ==
    [s \in {400, 401, 403, 404, 405, 408, 410, 500, 502, 503, 504} |->
        CASE s = 404 -> "Not Found - Image does not exist"
          [] s = 410 -> "Gone - Image permanently removed"
          [] OTHER   -> LinkStatusMessages[s]]

\* LinkChecker._get_status_message / ImageChecker._get_status_message
_get_status_message(c, status) ==
    LET table == IF c = "images" THEN ImageStatusMessages ELSE LinkStatusMessages
    IN IF status \in DOMAIN table THEN << table[status] >>
       ELSE << "HTTP Error ", ToString(status) >>

\* whether a message, the concatenation of its pieces, is the empty string
IsEmptyMessage(msg) == \A k \in 1 .. Len(msg) : msg[k] = ""

\* round(total / n, 0), 0 for an empty list (the load times of the model never
\* produce a tie)
Average(total, n) == IF n = 0 THEN 0 ELSE (2 * total + n) \div (2 * n)

(***************************************************************************)
(* The state of one checker run.                                           *)
(***************************************************************************)
VARIABLES
    checker,          \* which checker runs (its name property)
    cancel_event,     \* config['_cancel_event']: "none", "clear" or "set"
    check_alt_tags,   \* image_checker.check_alt_tags (default True)
    max_depth,        \* link_checker.max_depth
    max_links,        \* link_checker.max_links
    max_per_page,     \* max_links_per_page / max_images_per_page (0 = unlimited)
    main_content_only, ignore_header, ignore_footer,   \* the content-scope settings
    use_browser,      \* self.use_browser
    browser,          \* self.browser: "none" or "running"
    pc,               \* where run() is
    page,             \* the page of the for loop over critical_pages
    idx,              \* the position of the for loop over the page's resources
    checked,          \* checked_urls / checked_images / checked_videos
    page_broken, page_slow, page_missing_alt, page_valid, total_time,
    broken,           \* broken_links / broken_images / broken_videos
    slow_all,         \* slow_images
    missing_alt_all,  \* missing_alt_images
    all_valid,        \* all_images / all_videos
    results,          \* self.results
    to_crawl, crawled, crawl_mode,
    fetchLog,         \* history: every request issued, in order
    faults,           \* history: fault budget used
    budget,           \* history: the fault budget of the run
    start_failed,     \* history: the browser was asked for and did not start
    observed          \* history: the first is_cancelled() that returned True

chkVars == << checker, cancel_event, check_alt_tags, max_depth, max_links, max_per_page,
              main_content_only, ignore_header, ignore_footer,
              use_browser, browser, pc, page, idx, checked,
              page_broken, page_slow, page_missing_alt, page_valid, total_time,
              broken, slow_all, missing_alt_all, all_valid, results,
              to_crawl, crawled, crawl_mode, fetchLog, faults, budget, start_failed,
              observed >>

\* BaseMonitor.is_cancelled
is_cancelled == cancel_event = "set"

NotObserved == [seen |-> FALSE, page |-> 0, inner |-> FALSE, results |-> <<>>,
                page_broken |-> <<>>, page_slow |-> <<>>, page_missing_alt |-> <<>>]

Observe(inner) ==
    IF observed.seen THEN observed
    ELSE [seen |-> TRUE, page |-> page, inner |-> inner, results |-> results,
          page_broken |-> IF inner THEN page_broken ELSE <<>>,
          page_slow |-> IF inner THEN page_slow ELSE <<>>,
          page_missing_alt |-> IF inner THEN page_missing_alt ELSE <<>>]

LogEntry(op, u, o) ==
    [op |-> op, url |-> u, page |-> page, phase |-> pc, outcome |-> o,
     cancelled |-> is_cancelled, observed |-> observed.seen, results |-> results,
     browser |-> browser,
     depth |-> IF pc = "crawl" /\ to_crawl # <<>> THEN Head(to_crawl)[2] ELSE 0]

\* a fault is taken only while the budget lasts
Within(isFault) == ~isFault \/ faults < budget
Spend(isFault) == IF isFault THEN faults + 1 ELSE faults

\* the tags of a list that are left when the tags of a region are decomposed
RECURSIVE Without(_, _)
Without(tags, region) ==
    IF tags = <<>> THEN <<>>
    ELSE (IF RegionOf(Head(tags)) = region THEN <<>> ELSE << Head(tags) >>)
         \o Without(Tail(tags), region)

\* _get_content_scope(soup): with main_content_only and a main element, that
\* element; else the page without the header and footer elements that are to be
\* ignored; else the whole page
_get_content_scope(p, tags, main_only, no_header, no_footer) ==
    IF main_only /\ HasMain(p)
    THEN Without(Without(tags, "header"), "footer")
    ELSE Without(Without(tags, IF no_header THEN "header" ELSE "none"),
                 IF no_footer THEN "footer" ELSE "none")

\* the page's list after extraction: the Link and Image checkers extract from
\* the filtered page when they fetch over HTTP and take the browser's own list
\* of the whole page (get_all_links, get_all_images) in browser mode; the Video
\* checker extracts from the whole page
Extracted(c, p, br) ==
    CASE c = "links" /\ br # "running"  ->
            Dedup(_get_content_scope(p, AnchorTags(p), main_content_only,
                                     ignore_header, ignore_footer))
      [] c = "images" /\ br # "running" ->
            Dedup(_get_content_scope(p, ImageTags(p), main_content_only,
                                     ignore_header, ignore_footer))
      [] c = "links"  -> Anchors(p)
      [] c = "images" -> Images(p)
      [] OTHER        -> Videos(p)

\* the page's list after extraction, for the run in progress
Resources(c, p) == Extracted(c, p, browser)

\* the defaults of link_checker.max_depth and link_checker.max_links
DefaultMaxDepth == 3
DefaultMaxLinks == 500

\* a checker after __init__, whatever its limits are
\* a per-page scan that goes through the whole extracted list
LimitNever(c, list, cap) == list

\* "if self.max_links_per_page > 0 and len(links) > self.max_links_per_page:
\* links = links[:self.max_links_per_page]", the same for the images; the Video
\* checker has no cap
Limit(c, list, cap) ==
    IF c # "videos" /\ cap > 0 /\ Len(list) > cap THEN SubSeq(list, 1, cap) ELSE list

\* the list the page's loop goes through
Scanned(c, p) == Limit(c, Resources(c, p), max_per_page)

InitRun ==
    /\ checker \in CheckerNames
    /\ cancel_event \in {"none", "clear"}
    /\ check_alt_tags \in (IF checker = "images" THEN BOOLEAN ELSE {TRUE})
    /\ use_browser \in BOOLEAN
    /\ browser = "none"
    /\ pc = "init"
    /\ page = 1
    /\ idx = 1
    /\ checked = {}
    /\ page_broken = <<>> /\ page_slow = <<>> /\ page_missing_alt = <<>>
    /\ page_valid = <<>> /\ total_time = 0
    /\ broken = <<>> /\ slow_all = <<>> /\ missing_alt_all = <<>> /\ all_valid = <<>>
    /\ results = <<>>
    /\ to_crawl = <<>> /\ crawled = {} /\ crawl_mode = "none"
    /\ fetchLog = <<>>
    /\ faults = 0
    /\ start_failed = FALSE
    /\ observed = NotObserved

\* a checker constructed from a configuration that sets none of the limits
\* the content-scope settings at their defaults
FullPage == main_content_only = FALSE /\ ignore_header = FALSE /\ ignore_footer = FALSE

InitChecker ==
    /\ InitRun
    /\ budget = MaxFaults
    /\ FullPage
    /\ max_depth = DefaultMaxDepth
    /\ max_links = DefaultMaxLinks
    /\ max_per_page = 0


(***************************************************************************)
(* Classification of one verification: what it adds to the page's lists,   *)
(* to the site-wide lists and to the checked set.                          *)
(***************************************************************************)
NoDelta ==
    [broken |-> <<>>, site_broken |-> <<>>, slow |-> <<>>, valid |-> <<>>,
     add_checked |-> FALSE, time |-> 0, raises |-> FALSE]

BrokenDelta(ref, p, status, msg, site_msg, ms) ==
    [NoDelta EXCEPT !.broken = << Item(ref, status, msg, p, ms) >>,
                    !.site_broken = << Item(ref, status, site_msg, p, ms) >>]

\* LinkChecker._check_links_per_page, the try around requests.get(link_url)
ClassifyLink(ref, o, p) ==
    CASE o.kind = "response" ->
            IF o.status >= 400
            THEN [BrokenDelta(ref, p, ToString(o.status),
                              _get_status_message("links", o.status),
                              _get_status_message("links", o.status), o.ms)
                    EXCEPT !.add_checked = TRUE, !.time = o.ms]
            ELSE [NoDelta EXCEPT
                    !.add_checked = TRUE, !.time = o.ms,
                    !.slow = IF o.ms > 3000
                             THEN << Item(ref, ToString(o.status), <<>>, p, o.ms) >>
                             ELSE <<>>,
                    !.valid = << Item(ref, ToString(o.status), <<>>, p, o.ms) >>]
      [] o.kind = "timeout" ->
            BrokenDelta(ref, p, "timeout",
                        << "Request timed out - link may be unreachable" >>,
                        << "Request timed out" >>, 0)
      [] o.kind = "ssl" ->
            BrokenDelta(ref, p, "SSL_ERROR", << "SSL Certificate error: ", o.text >>,
                        << "SSL Certificate error" >>, 0)
      [] o.kind = "connection" ->
            BrokenDelta(ref, p, "CONNECTION_ERROR", << "Connection failed: ", o.text >>,
                        << "Connection failed" >>, 0)
      [] o.kind = "invalid_url" ->
            \* the handler's own _is_internal(link_url) raises
            [NoDelta EXCEPT !.raises = TRUE]
      [] OTHER ->
            IF ~_is_internal(ref.url) THEN NoDelta
            ELSE BrokenDelta(ref, p, "ERROR", << "Unknown error: ", o.text >>,
                             << o.text >>, 0)

\* ImageChecker._check_images_per_page, from checked_images.add(img_url) on
ClassifyImage(ref, o, p) ==
    LET d == CASE o.kind = "response" ->
                    IF o.status >= 400
                    THEN [BrokenDelta(ref, p, ToString(o.status),
                                      _get_status_message("images", o.status),
                                      _get_status_message("images", o.status), o.ms)
                            EXCEPT !.time = o.ms]
                    ELSE IF o.ctype # "image/png" /\ o.ctype # ""
                    THEN [BrokenDelta(ref, p, "INVALID_TYPE",
                                      << "Not an image: ", o.ctype >>,
                                      << "Not an image: ", o.ctype >>, o.ms)
                            EXCEPT !.time = o.ms]
                    ELSE [NoDelta EXCEPT
                            !.time = o.ms,
                            !.valid = << Item(ref, ToString(o.status), <<>>, p, o.ms) >>,
                            !.slow = IF o.ms > 3000
                                     THEN << Item(ref, ToString(o.status), <<>>, p, o.ms) >>
                                     ELSE <<>>]
               [] o.kind = "timeout" ->
                    BrokenDelta(ref, p, "TIMEOUT",
                                << "Request timed out - image may be unreachable" >>,
                                << "Request timed out - image may be unreachable" >>, 15000)
               [] o.kind = "ssl" ->
                    BrokenDelta(ref, p, "SSL_ERROR", << "SSL Certificate error" >>,
                                << "SSL Certificate error" >>, 0)
               [] o.kind = "connection" ->
                    BrokenDelta(ref, p, "CONNECTION_ERROR", << "Connection failed" >>,
                                << "Connection failed" >>, 0)
               [] OTHER ->
                    BrokenDelta(ref, p, "ERROR", << o.text >>, << o.text >>, 0)
    IN [d EXCEPT !.add_checked = TRUE]

\* VideoChecker._check_youtube_video: (is_available, error_message)
_check_youtube_video(o) ==
    CASE o.kind = "response" /\ o.status = 200 -> << TRUE, <<>> >>
      [] o.kind = "response" /\ o.status = 401 -> << FALSE, << "Video is private or restricted" >> >>
      [] o.kind = "response" /\ o.status = 403 -> << FALSE, << "Video embedding disabled" >> >>
      [] o.kind = "response" /\ o.status = 404 -> << FALSE, << "Video not found or deleted" >> >>
      [] o.kind = "response" -> << FALSE, << "YouTube returned status ", ToString(o.status) >> >>
      [] o.kind = "timeout" -> << FALSE, << "Timeout checking YouTube video" >> >>
      [] OTHER -> << FALSE, << "Error: ", o.text >> >>

\* VideoChecker._check_vimeo_video
_check_vimeo_video(o) ==
    CASE o.kind = "response" /\ o.status = 200 -> << TRUE, <<>> >>
      [] o.kind = "response" /\ o.status = 403 -> << FALSE, << "Video is private" >> >>
      [] o.kind = "response" /\ o.status = 404 -> << FALSE, << "Video not found" >> >>
      [] o.kind = "response" -> << FALSE, << "Vimeo returned status ", ToString(o.status) >> >>
      [] o.kind = "timeout" -> << FALSE, << "Timeout checking Vimeo video" >> >>
      [] OTHER -> << FALSE, << "Error: ", o.text >> >>

\* VideoChecker._check_html5_video
_check_html5_video(o) ==
    CASE o.kind = "response" /\ o.status = 200 ->
            IF o.ctype = "video/mp4" THEN << TRUE, <<>> >>
            ELSE << FALSE, << "Not a video file: ", o.ctype >> >>
      [] o.kind = "response" /\ o.status = 403 -> << FALSE, << "Access denied" >> >>
      [] o.kind = "response" /\ o.status = 404 -> << FALSE, << "Video file not found" >> >>
      [] o.kind = "response" -> << FALSE, << "HTTP ", ToString(o.status) >> >>
      [] o.kind = "timeout" -> << FALSE, << "Timeout loading video" >> >>
      [] OTHER -> << FALSE, << "Error: ", o.text >> >>

\* VideoChecker._check_embed_url
_check_embed_url(o) ==
    CASE o.kind = "response" /\ o.status < 400 -> << TRUE, <<>> >>
      [] o.kind = "response" -> << FALSE, << "HTTP ", ToString(o.status) >> >>
      [] OTHER -> << FALSE, << "Error: ", o.text >> >>

\* VideoChecker._check_video_availability
_check_video_availability(ref, o) ==
    CASE ref.type \in {"youtube", "youtube_link"} -> _check_youtube_video(o)
      [] ref.type = "vimeo" -> _check_vimeo_video(o)
      [] ref.type = "html5" -> _check_html5_video(o)
      [] OTHER -> _check_embed_url(o)

\* a classification that records an unavailable video in no list
ClassifyVideoDropsBroken(ref, o, p) ==
    LET av == _check_video_availability(ref, o)
    IN IF av[1]
       THEN [NoDelta EXCEPT !.add_checked = TRUE,
                            !.valid = << Item(ref, "OK", <<>>, p, 0) >>]
       ELSE [NoDelta EXCEPT !.add_checked = TRUE]

\* VideoChecker._check_videos_per_page, from checked_videos.add(video_url) on
ClassifyVideo(ref, o, p) ==
    LET av == _check_video_availability(ref, o)
    IN IF av[1]
       THEN [NoDelta EXCEPT !.add_checked = TRUE,
                            !.valid = << Item(ref, "OK", <<>>, p, 0) >>]
       ELSE [BrokenDelta(ref, p, "BROKEN", av[2], av[2], 0) EXCEPT !.add_checked = TRUE]

Classify(c, ref, o, p) ==
    CASE c = "links"  -> ClassifyLink(ref, o, p)
      [] c = "images" -> ClassifyImage(ref, o, p)
      [] OTHER        -> ClassifyVideo(ref, o, p)

\* a test of the alt text that does not look at the check_alt_tags setting
MissingAltIgnoresSetting(c, ref, p) ==
    IF c = "images" /\ ref.alt = ""
    THEN << Item(ref, "", << "Missing alt attribute" >>, p, 0) >>
    ELSE <<>>

\* "if self.check_alt_tags and not alt_text": the missing-alt entry of an image
MissingAlt(c, ref, p) ==
    IF c = "images" /\ check_alt_tags /\ ref.alt = ""
    THEN << Item(ref, "", << "Missing alt attribute" >>, p, 0) >>
    ELSE <<>>


(***************************************************************************)
(* run(): browser start-up and the per-page scan.                          *)
(***************************************************************************)
crawlUnchanged == UNCHANGED << to_crawl, crawled, crawl_mode >>
siteListsUnchanged == UNCHANGED << broken, slow_all, missing_alt_all, all_valid >>
pageListsUnchanged ==
    UNCHANGED << page_broken, page_slow, page_missing_alt, page_valid, total_time >>
limitsUnchanged ==
    UNCHANGED << max_depth, max_links, max_per_page, budget,
                 main_content_only, ignore_header, ignore_footer >>
configUnchanged ==
    /\ UNCHANGED << checker, cancel_event, check_alt_tags, start_failed >>
    /\ limitsUnchanged

\* a way out of run() that leaves the browser as it is
LeaveBrowser == UNCHANGED browser

\* the finally of run(): "if self.browser: self.browser.stop(); self.browser = None"
StopBrowser == browser' = "none"

\* a run() that gives up when the browser does not start
AbortOnStartFailure(ub, started) == IF ub /\ ~started THEN "raised" ELSE "page_head"

\* where run() goes on after the browser start-up: both the "if not
\* self.browser.start()" branch and the except fall through to the scan
AfterStart(ub, started) == "page_head"

\* run() up to the try: the lists are reset and, with use_browser, the browser is
\* started; a start() that returns False or raises falls back to HTTP requests
StartRun(started) ==
    /\ pc = "init"
    /\ start_failed' = (use_browser /\ ~started)
    /\ Within(use_browser /\ ~started)
    /\ faults' = Spend(use_browser /\ ~started)
    /\ use_browser' = (use_browser /\ started)
    /\ browser' = IF use_browser /\ started THEN "running" ELSE "none"
    /\ results' = <<>>
    /\ checked' = {}
    /\ broken' = <<>> /\ slow_all' = <<>> /\ missing_alt_all' = <<>> /\ all_valid' = <<>>
    /\ page' = 1
    /\ pc' = AfterStart(use_browser, started)
    /\ UNCHANGED << idx, fetchLog, observed >>
    /\ pageListsUnchanged /\ crawlUnchanged
    /\ UNCHANGED << checker, cancel_event, check_alt_tags >>
    /\ limitsUnchanged

\* a loop over the pages that never tests the cancellation signal
PageLoopNeverTestsCancel(c) == FALSE

\* the cancellation test at the top of the loop over the pages: the Link and the
\* Image checker have one, the Video checker has none
PageLoopTestsCancel(c) == c \in {"links", "images"}

\* the cancellation test at the top of the loop over a page's resources
ResourceLoopTestsCancel(c) == c \in {"links", "images"}

\* top of "for page in pages": the end of the list, the cancellation test,
\* get_full_url(page) (which raises on an entry that is no string: nothing in
\* run() catches that) and the page's empty lists
PageHead(entry_ok) ==
    /\ pc = "page_head"
    /\ Within(page <= NumPages /\ ~entry_ok)
    /\ IF page > NumPages
       THEN /\ entry_ok
            /\ pc' = "after_pages"
            /\ UNCHANGED << observed, browser, faults >>
       ELSE IF PageLoopTestsCancel(checker) /\ is_cancelled
                 /\ (checker = "images" \/ entry_ok)
       THEN /\ entry_ok
            /\ observed' = Observe(FALSE)
            /\ pc' = "after_pages"
            /\ UNCHANGED << browser, faults >>
       ELSE IF ~entry_ok
       THEN /\ pc' = "raised"
            /\ StopBrowser
            /\ faults' = faults + 1
            /\ UNCHANGED observed
       ELSE /\ pc' = "page_fetch"
            /\ UNCHANGED << observed, browser, faults >>
    /\ page_broken' = <<>> /\ page_slow' = <<>> /\ page_missing_alt' = <<>>
    /\ page_valid' = <<>> /\ total_time' = 0
    /\ UNCHANGED << use_browser, page, idx, checked, results, fetchLog >>
    /\ siteListsUnchanged /\ crawlUnchanged /\ configUnchanged

\* the Finding of the except around one page's processing
PageError(c, p) ==
    Finding(c, "error", IF c = "images" THEN "high" ELSE "medium",
            get_full_url(p), "check failed for page", <<>>, 0, NoTime)

\* what a page whose fetch failed (status other than 200, or a navigation that
\* did not succeed) leaves in the results: the page is logged and skipped
PageFetchFailed(c, p, res) == res

\* an except that logs the error and adds no Finding
PageRaisedSilently(c, p, res) == res

\* the except of the page's try: one error Finding, then the next page
PageRaised(c, p, res) == Append(res, PageError(c, p))

\* the outcomes of the page fetch: requests.get(url, timeout=15), or
\* browser.navigate(url), which never raises, followed by get_page_source(),
\* which may (get_all_images catches what it raises)
PageOutcomesOf(c, br) ==
    IF br = "running" /\ c = "images"
    THEN { o \in PageOutcomes : o.kind = "response" }
    ELSE PageOutcomes

\* the page is fetched and its resources are extracted
FetchPage(o) ==
    /\ pc = "page_fetch"
    /\ o \in PageOutcomesOf(checker, browser)
    /\ Within(IsFault("links", o))
    /\ faults' = Spend(IsFault("links", o))
    /\ fetchLog' = Append(fetchLog, LogEntry("page", get_full_url(page), o))
    /\ CASE o.kind = "response" /\ o.status = 200 ->
                /\ idx' = 1
                /\ pc' = "res_head"
                /\ UNCHANGED << page, results >>
         [] o.kind = "response" /\ o.status # 200 ->
                /\ results' = PageFetchFailed(checker, page, results)
                /\ page' = page + 1
                /\ pc' = "page_head"
                /\ UNCHANGED idx
         [] OTHER ->
                /\ results' = PageRaised(checker, page, results)
                /\ page' = page + 1
                /\ pc' = "page_head"
                /\ UNCHANGED idx
    /\ UNCHANGED << use_browser, browser, checked, observed >>
    /\ pageListsUnchanged /\ siteListsUnchanged /\ crawlUnchanged /\ configUnchanged

\* "if link_url in self.checked_urls: continue" (checked_images, checked_videos)
AlreadyChecked(u, done) == u \in done

\* top of the loop over the page's resources: the end of the list, the
\* cancellation test, and the skip of a resource that is in the checked set
ResourceHead ==
    /\ pc = "res_head"
    /\ LET list == Scanned(checker, page)
       IN IF idx > Len(list)
          THEN /\ pc' = "page_emit"
               /\ UNCHANGED << idx, observed >>
          ELSE IF ResourceLoopTestsCancel(checker) /\ is_cancelled
          THEN /\ observed' = Observe(TRUE)
               /\ pc' = "page_emit"
               /\ UNCHANGED idx
          ELSE IF AlreadyChecked(list[idx].url, checked)
          THEN /\ idx' = idx + 1
               /\ UNCHANGED << pc, observed >>
          ELSE /\ pc' = "res_verify"
               /\ UNCHANGED << idx, observed >>
    /\ UNCHANGED << use_browser, browser, page, checked, results, fetchLog, faults >>
    /\ pageListsUnchanged /\ siteListsUnchanged /\ crawlUnchanged /\ configUnchanged

\* one resource is verified and classified
Verify(o) ==
    /\ pc = "res_verify"
    /\ o \in VerifyOutcomes(checker)
    /\ Within(IsFault(checker, o))
    /\ faults' = Spend(IsFault(checker, o))
    /\ LET ref == Scanned(checker, page)[idx]
           d   == Classify(checker, ref, o, page)
           alt == MissingAlt(checker, ref, page)
       IN /\ fetchLog' = Append(fetchLog, LogEntry("verify", ref.url, o))
          /\ checked' = IF d.add_checked THEN checked \cup {ref.url} ELSE checked
          /\ missing_alt_all' = missing_alt_all \o alt
          /\ broken' = broken \o d.site_broken
          /\ slow_all' = IF checker = "images" THEN slow_all \o d.slow ELSE slow_all
          /\ all_valid' = IF checker = "links" THEN all_valid ELSE all_valid \o d.valid
          /\ IF d.raises
             THEN /\ results' = PageRaised(checker, page, results)
                  /\ page' = page + 1
                  /\ pc' = "page_head"
                  /\ UNCHANGED idx
                  /\ pageListsUnchanged
             ELSE /\ page_missing_alt' = page_missing_alt \o alt
                  /\ page_broken' = page_broken \o d.broken
                  /\ page_slow' = page_slow \o d.slow
                  /\ page_valid' = page_valid \o d.valid
                  /\ total_time' = total_time + d.time
                  /\ idx' = idx + 1
                  /\ pc' = "res_head"
                  /\ UNCHANGED << page, results >>
    /\ UNCHANGED << use_browser, browser, observed >>
    /\ crawlUnchanged /\ configUnchanged


(***************************************************************************)
(* The Findings of one page, and the site-wide summary.                    *)
(***************************************************************************)
Opt(cond, f) == IF cond THEN << f >> ELSE <<>>

Take(s, n) == SubSeq(s, 1, IF Len(s) < n THEN Len(s) ELSE n)

\* "broken_images[:20]  # Limit to first 20"
PreviewCap == 20

\* page Findings that add the success Finding whatever the broken list holds
LinkPageFindingsAlwaysSuccess(p, list, pb, ps, pv, tt) ==
    LET url == get_full_url(p)
    IN Opt(pb # <<>>, Finding("links", "error", "high", url, "broken on page",
                              pb, Len(list), NoTime))
       \o << Finding("links", "success", "info", url, "all valid on page",
                     pv, Len(list), Average(tt, Len(pv))) >>

\* the end of one page's try in LinkChecker._check_links_per_page
LinkPageFindings(p, list, pb, ps, pv, tt) ==
    LET url == get_full_url(p)
        avg_time == Average(tt, Len(pv))
    IN Opt(pb # <<>>, Finding("links", "error", "high", url, "broken on page",
                              pb, Len(list), NoTime))
       \o Opt(ps # <<>>, Averaged(Finding("links", "warning", "medium", url, "slow on page",
                                          ps, Len(ps), NoTime), avg_time))
       \o Opt(pb = <<>>, Finding("links", "success", "info", url, "all valid on page",
                                 pv, Len(list), avg_time))

\* the end of one page's try in ImageChecker._check_images_per_page
\* (total_images is the length of the extracted list, list the list the loop
\* went through)
ImagePageFindings(p, total_images, list, pb, ps, pa, pv, tt) ==
    LET url == get_full_url(p)
        avg_time == Average(tt, Len(pv))
    IN Opt(pb # <<>>, Finding("images", "error", "high", url, "broken on page",
                              pb, total_images, NoTime))
       \o Opt(ps # <<>>, Averaged(Finding("images", "warning", "medium", url, "slow on page",
                                          ps, Len(ps), NoTime), avg_time))
       \o Opt(pa # <<>>, Finding("images", "warning", "low", url, "missing alt on page",
                                 pa, Len(pa), NoTime))
       \o Opt(pb = <<>> /\ ps = <<>>,
              Finding("images", "success", "info", url, "all valid on page",
                      pv, Len(list), avg_time))

\* page Findings that pass over a page without videos
VideoPageFindingsSkipsEmpty(p, list, pb, pv) ==
    LET url == get_full_url(p)
    IN Opt(pb # <<>>, Finding("videos", "error", "high", url, "broken on page",
                              pb, Len(list), NoTime))
       \o Opt(pb = <<>> /\ list # <<>>,
              Finding("videos", "success", "info", url, "all valid on page",
                      pv, Len(list), NoTime))

\* the end of one page's try in VideoChecker._check_videos_per_page
VideoPageFindings(p, list, pb, pv) ==
    LET url == get_full_url(p)
    IN Opt(pb # <<>>, Finding("videos", "error", "high", url, "broken on page",
                              pb, Len(list), NoTime))
       \o (IF pb = <<>> /\ list # <<>>
           THEN << Finding("videos", "success", "info", url, "all valid on page",
                           pv, Len(list), NoTime) >>
           ELSE Opt(list = <<>>, Finding("videos", "info", "low", url,
                                         "none found on page", <<>>, 0, NoTime)))

PageFindings(c, p, pb, ps, pa, pv, tt) ==
    CASE c = "links"  -> LinkPageFindings(p, Scanned(c, p), pb, ps, pv, tt)
      [] c = "images" -> ImagePageFindings(p, Len(Resources(c, p)), Scanned(c, p),
                                           pb, ps, pa, pv, tt)
      [] OTHER        -> VideoPageFindings(p, Scanned(c, p), pb, pv)

\* the page's Findings are added, then the next page
EmitPage ==
    /\ pc = "page_emit"
    /\ results' = results \o PageFindings(checker, page, page_broken, page_slow,
                                          page_missing_alt, page_valid, total_time)
    /\ page' = page + 1
    /\ pc' = "page_head"
    /\ UNCHANGED << use_browser, browser, idx, checked, fetchLog, faults, observed >>
    /\ pageListsUnchanged /\ siteListsUnchanged /\ crawlUnchanged /\ configUnchanged

\* a run() that has no Finding for a site without broken links
LinkSummaryOfBrokenOnly(br, done) ==
    Opt(br # <<>>, Finding("links", "error", "high", NoUrl, "broken across site",
                           br, Cardinality(done), NoTime))

\* LinkChecker.run, "Summarize results with detailed broken link info"
LinkSummary(br, done) ==
    IF br # <<>>
    THEN << Finding("links", "error", "high", NoUrl, "broken across site",
                    br, Cardinality(done), NoTime) >>
    ELSE << Finding("links", "success", "info", NoUrl, "all valid",
                    <<>>, Cardinality(done), NoTime) >>

\* ImageChecker._generate_summary
ImageSummary(br, sl, ma, done) ==
    Opt(br # <<>>, Counted(Finding("images", "error", "high", NoUrl, "broken across site",
                                   Take(br, PreviewCap), Cardinality(done), NoTime),
                           Len(br)))
    \o Opt(sl # <<>>, Counted(Finding("images", "warning", "medium", NoUrl, "slow across site",
                                      Take(sl, PreviewCap), Len(sl), NoTime),
                              Len(sl)))
    \o Opt(ma # <<>>, Counted(Finding("images", "warning", "low", NoUrl,
                                      "missing alt across site",
                                      Take(ma, PreviewCap), Len(ma), NoTime),
                              Len(ma)))
    \o Opt(br = <<>> /\ sl = <<>>,
           Finding("images", "success", "info", NoUrl, "all valid",
                   <<>>, Cardinality(done), NoTime))

\* VideoChecker._generate_summary
VideoSummary(br, av, done) ==
    IF br # <<>>
    THEN << Counted(Finding("videos", "error", "high", NoUrl, "broken across site",
                            Take(br, PreviewCap), Cardinality(done), NoTime),
                    Len(br)) >>
    ELSE IF av # <<>>
    THEN << Finding("videos", "success", "info", NoUrl, "all valid",
                    <<>>, Cardinality(done), NoTime) >>
    ELSE << Finding("videos", "info", "low", NoUrl, "none found", <<>>, 0, NoTime) >>

Summary(c) ==
    CASE c = "links"  -> LinkSummary(broken, checked)
      [] c = "images" -> ImageSummary(broken, slow_all, missing_alt_all, checked)
      [] OTHER        -> VideoSummary(broken, all_valid, checked)

(***************************************************************************)
(* The Link Checker's site crawl.                                          *)
(***************************************************************************)
\* link_checker.check_external (default True)
check_external == TRUE

\* _extract_links(html, url): the set of the page's anchors
_extract_links(u) ==
    IF u \in Pages THEN { Anchors(u)[k].url : k \in 1 .. Len(Anchors(u)) } ELSE {}

\* the orders in which "for link in links" may go through list(set(links))
Orderings(S) ==
    { f \in [1 .. Cardinality(S) -> S] : \A a, b \in 1 .. Cardinality(S) : a # b => f[a] # f[b] }

CrawlOutcomes ==
    { OkFast("links"), Response(404, 100, "text/html"),
      Raised("timeout", "timed out"), Raised("connection", "refused") }

HeadOutcomes == { OkFast("links"), Response(404, 100, "text/html"), Raised("connection", "refused") }

CrawlItem(u, status, msg, source) ==
    [url |-> u, text |-> "", status_code |-> status, status_message |-> msg,
     found_on_page |-> source, ms |-> 0]

\* a Link checker that crawls the site in browser mode as well
CrawlsSiteAlways(c, ub) == c = "links"

\* "if not self.use_browser:" in LinkChecker.run, the only run() with a crawl
CrawlsSite(c, ub) == c = "links" /\ ~ub

\* after the per-page scan: "if not self.use_browser:" the site crawl starts
\* (asyncio.run(self._crawl_site())), else run() goes on to its finally
AfterPages ==
    /\ pc = "after_pages"
    /\ IF CrawlsSite(checker, use_browser)
       THEN /\ to_crawl' = << << BaseUrl, 0 >> >>
            /\ crawled' = {}
            /\ crawl_mode' = "async"
            /\ pc' = "crawl"
       ELSE /\ pc' = "finish"
            /\ crawlUnchanged
    /\ UNCHANGED << use_browser, browser, page, idx, checked, results, fetchLog,
                    faults, observed >>
    /\ pageListsUnchanged /\ siteListsUnchanged /\ configUnchanged

\* asyncio.run(self._crawl_site()) raises before the first request: run() logs
\* "Async crawl failed, using sync" and calls _crawl_site_sync()
AsyncCrawlFails ==
    /\ pc = "crawl" /\ crawl_mode = "async" /\ crawled = {}
    /\ Within(TRUE)
    /\ faults' = faults + 1
    /\ crawl_mode' = "sync"
    /\ to_crawl' = << << BaseUrl, 0 >> >>
    /\ UNCHANGED << crawled, use_browser, browser, pc, page, idx, checked, results,
                    fetchLog, observed >>
    /\ pageListsUnchanged /\ siteListsUnchanged /\ configUnchanged

\* to_crawl after "for link in links" went through the links in order ord
RECURSIVE Enqueue(_, _, _, _)
Enqueue(queue, ord, depth, done) ==
    IF ord = <<>> THEN queue
    ELSE Enqueue(IF _is_internal(Head(ord)) /\ Head(ord) \notin done
                 THEN Append(queue, << Head(ord), depth + 1 >>) ELSE queue,
                 Tail(ord), depth, done)

\* an external check that lists the link as broken when the request raises
HeadBrokenOnError(h, source) ==
    Opt(h.kind # "response" \/ h.status >= 400,
        CrawlItem(ExternalUrl, IF h.kind = "response" THEN ToString(h.status) ELSE "error",
                  IF h.kind = "response" THEN _get_status_message("links", h.status)
                  ELSE << h.text >>, source))

\* what _check_external_link adds to broken_links: the entry of a response
\* with status >= 400; "except: pass" adds nothing
HeadBroken(h, source) ==
    Opt(h.kind = "response" /\ h.status >= 400,
        CrawlItem(ExternalUrl, ToString(h.status),
                  _get_status_message("links", h.status), source))

\* a crawl that follows links however deep they are
SkipsCrawledOnly(url, depth, done, limit) == url \in done

\* "if url in crawled or depth > self.max_depth: continue"
SkipsUrl(url, depth, done, limit) == url \in done \/ depth > limit

\* one iteration of "while to_crawl and len(self.checked_urls) < self.max_links"
\* of _crawl_site / _crawl_site_sync; o is what the request of the dequeued URL
\* ends in, h what the HEAD request of _check_external_link ends in
CrawlStep(o, h, ord) ==
    /\ pc = "crawl"
    /\ to_crawl # <<>> /\ Cardinality(checked) < max_links
    /\ LET url   == Head(to_crawl)[1]
           depth == Head(to_crawl)[2]
           rest  == Tail(to_crawl)
           skip  == SkipsUrl(url, depth, crawled, max_depth)
           html  == o.kind = "response" /\ o.status < 400
           links == IF html THEN _extract_links(url) ELSE {}
           ext   == { l \in links : ~_is_internal(l) /\ l \notin (checked \cup {url}) }
           heads == crawl_mode = "async" /\ check_external /\ ext # {}
       IN /\ o \in CrawlOutcomes /\ h \in HeadOutcomes
          /\ skip => o = OkFast("links")
          /\ ~heads => h = OkFast("links")
          /\ ord \in Orderings(links)
          /\ Within(IsFault("links", o) \/ IsFault("links", h))
          /\ faults' = Spend(IsFault("links", o) \/ IsFault("links", h))
          /\ IF skip
             THEN /\ to_crawl' = rest
                  /\ UNCHANGED << crawled, checked, broken, fetchLog >>
             ELSE /\ crawled' = crawled \cup {url}
                  /\ to_crawl' = Enqueue(rest, ord, depth, crawled \cup {url})
                  /\ checked' = checked
                        \cup (IF o.kind = "response" THEN {url} ELSE {})
                        \cup (IF heads /\ h.kind = "response" THEN ext ELSE {})
                  /\ broken' = broken
                        \o Opt(o.kind = "response" /\ o.status >= 400,
                               CrawlItem(url, ToString(o.status),
                                         _get_status_message("links", o.status), 0))
                        \o Opt(o.kind = "timeout",
                               CrawlItem(url, "timeout",
                                         << "Request timed out - link may be unreachable" >>, 0))
                        \o (IF heads THEN HeadBroken(h, url) ELSE <<>>)
                  /\ fetchLog' = fetchLog \o << LogEntry("crawl", url, o) >>
                                    \o Opt(heads, LogEntry("head", ExternalUrl, h))
    /\ UNCHANGED << use_browser, browser, pc, crawl_mode, page, idx, results, observed,
                    slow_all, missing_alt_all, all_valid >>
    /\ pageListsUnchanged /\ configUnchanged

\* the crawl loop ends
CrawlEnds ==
    /\ pc = "crawl"
    /\ to_crawl = <<>> \/ Cardinality(checked) >= max_links
    /\ pc' = "finish"
    /\ UNCHANGED << use_browser, browser, page, idx, checked, results, fetchLog,
                    faults, observed >>
    /\ pageListsUnchanged /\ siteListsUnchanged /\ crawlUnchanged /\ configUnchanged

\* the finally of run() stops the browser, the summary is added and run()
\* returns self.results
FinishRun ==
    /\ pc = "finish"
    /\ StopBrowser
    /\ results' = results \o Summary(checker)
    /\ pc' = "done"
    /\ UNCHANGED << use_browser, page, idx, checked, fetchLog, faults, observed >>
    /\ pageListsUnchanged /\ siteListsUnchanged /\ crawlUnchanged /\ configUnchanged

\* the dashboard's stop request: check_state['cancel_event'].set()
SetCancel ==
    /\ cancel_event = "clear"
    /\ pc \notin {"done", "raised"}
    /\ cancel_event' = "set"
    /\ UNCHANGED << checker, check_alt_tags, use_browser, browser, pc, page, idx,
                    checked, results, fetchLog, faults, start_failed, observed >>
    /\ pageListsUnchanged /\ siteListsUnchanged /\ crawlUnchanged /\ limitsUnchanged



(***************************************************************************)
(* The orchestrator (WordPressMonitor): run_all_checks and the run modes   *)
(* of one checker.  What a monitor's run() returns is drawn from a small   *)
(* set; the database and the report generator may fail.                    *)
(***************************************************************************)
VARIABLES
    mode,             \* "all", "links", "images" or "videos"
    base_url,         \* self.base_url, config.get_website_url()
    generate_report,  \* the generate_report argument
    opc,              \* where the run method is
    monitors,         \* the monitors constructed, by name
    monitor_event,    \* config_dict['_cancel_event'] of the monitors: "none" or "shared"
    mon,              \* the monitor of the for loop
    all_results,      \* all_results / self.results
    check_record,     \* the check record: "none", "created" or "completed"
    stored,           \* the number of results written by db.add_result
    stats,            \* the statistics computed, <<>> before
    report_path,      \* "none" (None) or "written"
    ret,              \* what the run method returned: "none", "config_error", "stats"
    ran,              \* history: the monitors whose run() was called
    failed,           \* history: the monitors whose run() raised
    stopped_at,       \* history: the monitor before which the loop broke, or 0
    run_log           \* history: the run() calls in order, with the signal at the test

orchVars == << mode, base_url, generate_report, opc, monitors, monitor_event, mon,
               all_results, check_record, stored, stats, report_path, ret, ran, failed,
               stopped_at, run_log >>

Modes == {"all", "links", "images", "videos"}

\* "https://yourwordpresssite.com", the URL of the configuration template
Placeholder == "https://yourwordpresssite.com"

Urls == {"", Placeholder, "https://example.org"}

\* a guard that forgets the placeholder of the configuration template
UrlEmpty(u) == u = ""

\* "if not self.base_url or self.base_url == "https://yourwordpresssite.com""
UrlNotConfigured(u) == u = "" \/ u = Placeholder

\* self.monitors of _initialize_monitors, and the checker of a single-checker mode
MonitorsOf(m) ==
    IF m = "all"
    THEN << "uptime", "forms", "links", "images", "videos", "wordpress",
            "performance", "content", "seo" >>
    ELSE << m >>

\* a result: a MonitorResult of a monitor (by = "monitor") or the dict the run
\* method appends when a monitor failed (by = "orchestrator")
Result(monitor_type, status, severity, rt, by) ==
    [monitor_type |-> monitor_type, status |-> status, severity |-> severity,
     response_time |-> rt, by |-> by]

\* the monitors whose run() may return results with issues
WithIssues == CheckerNames \cup {"uptime"}

\* what monitor.run() returns: results without an issue or, for the uptime
\* monitor (a critical result) and the Link, Image and Video checkers,
\* results with issues
MonitorReturn(name, issues) ==
    IF ~issues THEN << Result(name, "success", "info", 120, "monitor") >>
    ELSE IF name = "uptime"
    THEN << Result(name, "critical", "critical", NoTime, "monitor") >>
    ELSE << Result(name, "error", "high", NoTime, "monitor"),
            Result(name, "warning", "medium", NoTime, "monitor"),
            Result(name, "warning", "low", NoTime, "monitor"),
            Result(name, "success", "info", 0, "monitor") >>

\* the dict of "except Exception as e" around monitor.run(); run_video_check_only
\* builds it without 'monitor_type'
ErrorDict(m, name) ==
    Result(IF m = "videos" THEN "" ELSE name, "error", "high", NoTime, "orchestrator")

\* an except that logs the failure and adds no result
MonitorFailedSilently(res, m, name) == res

\* the except around monitor.run(): the results after a monitor failed
MonitorFailed(res, m, name) == Append(res, ErrorDict(m, name))

\* "if hasattr(self, '_cancel_event'): config_dict['_cancel_event'] =
\* self._cancel_event": in _initialize_monitors, run_link_check_only and
\* run_image_check_only; run_video_check_only builds its config_dict without it
HandsCancelEvent(m) == m # "videos"

\* the monitor the loop goes on with after monitor i
NextMonitor(i) == i + 1

\* a loop over the monitors without the test of the cancel event
OrchNeverTestsCancel(m) == FALSE

\* "if hasattr(self, '_cancel_event') and self._cancel_event.is_set(): break":
\* the test is in the loop of run_all_checks only
OrchTestsCancel(m) == m = "all"

RECURSIVE SumTimes(_)
SumTimes(res) ==
    IF res = <<>> THEN 0
    ELSE (IF Head(res).response_time > 0 THEN Head(res).response_time ELSE 0)
         + SumTimes(Tail(res))

\* a count that passes over the results the run method added itself
RECURSIVE IssuesOfMonitors(_, _)
IssuesOfMonitors(res, sev) ==
    IF res = <<>> THEN 0
    ELSE (IF Head(res).by = "monitor" /\ Head(res).status # "success"
             /\ Head(res).severity = sev THEN 1 ELSE 0)
         + IssuesOfMonitors(Tail(res), sev)

\* issues[sev] after "for result in self.results": one more for every result
\* whose status is not 'success' and whose severity is sev
RECURSIVE Issues(_, _)
Issues(res, sev) ==
    IF res = <<>> THEN 0
    ELSE (IF Head(res).status # "success" /\ Head(res).severity = sev THEN 1 ELSE 0)
         + Issues(Tail(res), sev)

\* WordPressMonitor._calculate_stats; avg_response_time in hundredths
_calculate_stats(res) ==
    LET timed == { k \in DOMAIN res : res[k].response_time > 0 }
        n == Cardinality(timed)
    IN [total_checks |-> Len(res),
        critical_issues |-> Issues(res, "critical"),
        high_issues |-> Issues(res, "high"),
        medium_issues |-> Issues(res, "medium"),
        low_issues |-> Issues(res, "low"),
        total_issues |-> Issues(res, "critical") + Issues(res, "high")
                         + Issues(res, "medium") + Issues(res, "low"),
        avg_response_time |-> IF n = 0 THEN 0
                              ELSE (200 * SumTimes(res) + n) \div (2 * n)]

NoStats == [total_checks |-> 0, critical_issues |-> 0, high_issues |-> 0,
            medium_issues |-> 0, low_issues |-> 0, total_issues |-> 0,
            avg_response_time |-> 0]

InitOrchVars ==
    /\ mode \in Modes
    /\ base_url \in Urls
    /\ generate_report \in BOOLEAN
    /\ opc = "start"
    /\ monitors = <<>>
    /\ monitor_event = "none"
    /\ mon = 1
    /\ all_results = <<>>
    /\ check_record = "none"
    /\ stored = 0
    /\ stats = NoStats
    /\ report_path = "none"
    /\ ret = "none"
    /\ ran = {} /\ failed = {} /\ stopped_at = 0
    /\ run_log = <<>>

runArgsUnchanged == UNCHANGED << mode, base_url, generate_report >>
historyUnchanged == UNCHANGED << ran, failed, stopped_at, run_log >>

\* the run method up to the guard on the target URL: a URL that is not
\* configured returns {'error': 'Website URL not configured'}
OrchStart ==
    /\ opc = "start"
    /\ IF UrlNotConfigured(base_url)
       THEN /\ ret' = "config_error"
            /\ opc' = "returned"
       ELSE /\ opc' = "create_check"
            /\ UNCHANGED ret
    /\ UNCHANGED << monitors, monitor_event, mon, all_results, check_record, stored, stats,
                    report_path, cancel_event, faults >>
    /\ runArgsUnchanged /\ historyUnchanged

\* self.db.create_check(self.check_id), which nothing guards, then the monitors
\* are constructed
CreateCheck(db_ok) ==
    /\ opc = "create_check"
    /\ Within(~db_ok)
    /\ faults' = Spend(~db_ok)
    /\ IF db_ok
       THEN /\ check_record' = "created"
            /\ monitors' = MonitorsOf(mode)
            /\ monitor_event' = IF HandsCancelEvent(mode) /\ cancel_event # "none"
                                THEN "shared" ELSE "none"
            /\ mon' = 1
            /\ opc' = "loop"
       ELSE /\ opc' = "raised"
            /\ UNCHANGED << check_record, monitors, monitor_event, mon >>
    /\ UNCHANGED << all_results, stored, stats, report_path, ret, cancel_event >>
    /\ runArgsUnchanged /\ historyUnchanged

\* one iteration of the loop over the monitors (the only iteration in a
\* single-checker mode): the cancellation test, monitor.run(), the results
\* stored one by one with db.add_result, all inside the try
RunMonitor(raises, issues, db_ok) ==
    /\ opc = "loop"
    /\ mon <= Len(monitors)
    /\ IF OrchTestsCancel(mode) /\ is_cancelled
       THEN /\ ~raises /\ db_ok /\ ~issues
            /\ stopped_at' = mon
            /\ opc' = "stats"
            /\ UNCHANGED << mon, all_results, stored, ran, failed, faults, run_log >>
       ELSE LET name == monitors[mon]
                stores == mode # "videos"
                returned == IF raises THEN <<>> ELSE MonitorReturn(name, issues)
            IN /\ Within(raises \/ ~db_ok)
               /\ faults' = Spend(raises \/ ~db_ok)
               /\ issues => (~raises /\ name \in WithIssues)
               /\ ~db_ok => (~raises /\ stores)
               /\ ran' = ran \cup {mon}
               /\ run_log' = Append(run_log, [name |-> name, cancelled |-> is_cancelled])
               /\ failed' = IF raises THEN failed \cup {mon} ELSE failed
               /\ all_results' = IF raises \/ ~db_ok
                                 THEN MonitorFailed(all_results \o returned, mode, name)
                                 ELSE all_results \o returned
               /\ stored' = IF stores /\ db_ok THEN stored + Len(returned) ELSE stored
               /\ mon' = NextMonitor(mon)
               /\ UNCHANGED << opc, stopped_at >>
    /\ UNCHANGED << monitors, monitor_event, check_record, stats, report_path, ret, cancel_event >>
    /\ runArgsUnchanged

\* the loop is through
LoopEnds ==
    /\ opc = "loop"
    /\ mon > Len(monitors)
    /\ opc' = "stats"
    /\ UNCHANGED << monitors, monitor_event, mon, all_results, check_record, stored, stats,
                    report_path, ret, cancel_event, faults >>
    /\ runArgsUnchanged /\ historyUnchanged

\* stats = self._calculate_stats(duration), which reads the uptime percentage
\* from the database
CalculateStats(db_ok) ==
    /\ opc = "stats"
    /\ Within(~db_ok)
    /\ faults' = Spend(~db_ok)
    /\ IF db_ok
       THEN /\ stats' = _calculate_stats(all_results)
            /\ opc' = "complete"
       ELSE /\ opc' = "raised"
            /\ UNCHANGED stats
    /\ UNCHANGED << monitors, monitor_event, mon, all_results, check_record, stored, report_path,
                    ret, cancel_event >>
    /\ runArgsUnchanged /\ historyUnchanged

\* self.db.complete_check(self.check_id, {...}), which nothing guards
CompleteCheck(db_ok) ==
    /\ opc = "complete"
    /\ Within(~db_ok)
    /\ faults' = Spend(~db_ok)
    /\ IF db_ok
       THEN /\ check_record' = "completed"
            /\ opc' = IF generate_report THEN "report" ELSE "returned"
            /\ ret' = IF generate_report THEN ret ELSE "stats"
       ELSE /\ opc' = "raised"
            /\ UNCHANGED << check_record, ret >>
    /\ UNCHANGED << monitors, monitor_event, mon, all_results, stored, stats, report_path, cancel_event >>
    /\ runArgsUnchanged /\ historyUnchanged

\* self._generate_report(stats): ReportGenerator.generate_report catches what
\* writing the report raises and returns None
GenerateReport(written) ==
    /\ opc = "report"
    /\ Within(~written)
    /\ faults' = Spend(~written)
    /\ report_path' = IF written THEN "written" ELSE "none"
    /\ ret' = "stats"
    /\ opc' = "returned"
    /\ UNCHANGED << monitors, monitor_event, mon, all_results, check_record, stored, stats, cancel_event >>
    /\ runArgsUnchanged /\ historyUnchanged

\* the dashboard's stop request while the run method is running
OrchCancel ==
    /\ cancel_event = "clear"
    /\ opc \notin {"returned", "raised"}
    /\ cancel_event' = "set"
    /\ UNCHANGED faults
    /\ UNCHANGED orchVars

(***************************************************************************)
(* BaseMonitor.retry_with_backoff, as the uptime monitor calls it.         *)
(***************************************************************************)
VARIABLES
    retry_config,     \* self.retry_config
    rpc,              \* where retry_with_backoff is: "rest", "loop", "returned", "raised"
    attempt,          \* the loop variable of "for attempt in range(max_attempts)"
    last_exception,   \* None, or the number of the call that raised it
    raised,           \* what retry_with_backoff raised, None if nothing
    calls,            \* history: whether each call of func returned, in order
    sleeps            \* history: the arguments of time.sleep, in order

retryVars == << retry_config, rpc, attempt, last_exception, raised, calls, sleeps >>

None == -1
\* "exceptions must derive from BaseException", what "raise None" raises
TypeError == -2

\* the defaults of the retry settings
DefaultAttempts == 3
DefaultInitialDelay == 5
DefaultMaxDelay == 60

DefaultRetry ==
    [max_attempts |-> DefaultAttempts, initial_delay |-> DefaultInitialDelay,
     exponential_backoff |-> TRUE, max_delay |-> DefaultMaxDelay]

\* retry_with_backoff is not running
RetryAtRest ==
    /\ retry_config = DefaultRetry
    /\ rpc = "rest" /\ attempt = 0 /\ last_exception = None /\ raised = None
    /\ calls = <<>> /\ sleeps = <<>>

RECURSIVE Pow2(_)
Pow2(k) == IF k = 0 THEN 1 ELSE 2 * Pow2(k - 1)

Min(a, b) == IF a < b THEN a ELSE b

\* "delay = initial_delay * (2 ** attempt) if exponential else initial_delay;
\* delay = min(delay, max_delay)"
Delay(cfg, k) ==
    Min(IF cfg.exponential_backoff THEN cfg.initial_delay * Pow2(k) ELSE cfg.initial_delay,
        cfg.max_delay)

\* one iteration of the for loop: func is called; it returns, or it raises
\* and, when another attempt follows, the loop sleeps
RetryAttempt(ok) ==
    /\ rpc = "loop" /\ attempt < retry_config.max_attempts
    /\ calls' = Append(calls, ok)
    /\ IF ok
       THEN /\ rpc' = "returned"
            /\ UNCHANGED << attempt, last_exception, sleeps >>
       ELSE /\ last_exception' = Len(calls) + 1
            /\ sleeps' = IF attempt < retry_config.max_attempts - 1
                         THEN Append(sleeps, Delay(retry_config, attempt))
                         ELSE sleeps
            /\ attempt' = attempt + 1
            /\ UNCHANGED rpc
    /\ UNCHANGED << retry_config, raised >>

\* the loop is through: "raise last_exception"
RetryGivesUp ==
    /\ rpc = "loop" /\ attempt >= retry_config.max_attempts
    /\ raised' = IF last_exception = None THEN TypeError ELSE last_exception
    /\ rpc' = "raised"
    /\ UNCHANGED << retry_config, attempt, last_exception, calls, sleeps >>

(***************************************************************************)
(* The dashboard (create_app): check_state and the handlers that start and *)
(* stop a check.  The server handles each request on a thread of its own   *)
(* (async_mode='threading'), so the handlers interleave between the test   *)
(* of check_state['running'] and the assignments that follow it.           *)
(***************************************************************************)
VARIABLES
    running,          \* check_state['running']
    current,          \* the thread whose Event check_state['cancel_event'] is, 0: the first Event
    passed,           \* start handlers past their test of running, by entry point
    threads           \* the check threads started, in order

dashVars == << running, current, passed, threads >>

\* POST /api/check/run and the websocket message start_check
Vias == {"api", "ws"}

\* check_state after create_app
DashAtRest ==
    /\ running = FALSE
    /\ current = 0
    /\ passed = [v \in Vias |-> 0]
    /\ threads = <<>>

InFlight == passed["api"] + passed["ws"]

\* "if check_state['running']:" the request is refused
Refuses(r) == r

\* api_run_check / handle_start_check up to their test: the request goes on
\* when the test finds no check running (when it is refused nothing changes)
StartTest(v) ==
    /\ InFlight + Len(threads) < MaxChecks
    /\ ~Refuses(running)
    /\ passed' = [passed EXCEPT ![v] = @ + 1]
    /\ UNCHANGED << running, current, threads >>

\* the rest of the handler: check_state['running'] = True, for api_run_check a
\* new Event in check_state that the thread's monitor gets, and thread.start()
StartThread(v) ==
    /\ passed[v] > 0
    /\ passed' = [passed EXCEPT ![v] = @ - 1]
    /\ running' = TRUE
    /\ current' = IF v = "api" THEN Len(threads) + 1 ELSE current
    /\ threads' = Append(threads, [via |-> v, state |-> "executing",
                                   event |-> IF v = "api" THEN "clear" ELSE "none"])

\* api_run_check raises before thread.start() (request.json of a malformed
\* body): "except Exception: check_state['running'] = False"
ApiRunCheckFails ==
    /\ passed["api"] > 0
    /\ passed' = [passed EXCEPT !["api"] = @ - 1]
    /\ running' = FALSE
    /\ UNCHANGED << current, threads >>

\* run_check_thread / run_check comes to its end, by return or by exception:
\* check_state['running'] = False
CheckThreadEnds(i) ==
    /\ i \in DOMAIN threads /\ threads[i].state = "executing"
    /\ threads' = [threads EXCEPT ![i].state = "ended"]
    /\ running' = FALSE
    /\ UNCHANGED << current, passed >>

\* api_stop_check: refused when nothing runs; else the Event of check_state is
\* set and check_state['running'] = False, whatever the thread is doing
ApiStopCheck ==
    /\ running
    /\ threads' = IF current \in DOMAIN threads
                  THEN [threads EXCEPT ![current].event = "set"] ELSE threads
    /\ running' = FALSE
    /\ UNCHANGED << current, passed >>

orchFrame ==
    UNCHANGED << checker, check_alt_tags, use_browser, browser, pc, page, idx, checked, page_broken,
                 page_slow, page_missing_alt, page_valid, total_time, broken, slow_all,
                 missing_alt_all, all_valid, results, to_crawl, crawled, crawl_mode,
                 fetchLog, start_failed, observed, max_depth, max_links, max_per_page, budget,
                 main_content_only, ignore_header, ignore_footer, retryVars, dashVars >>

NextOrch ==
    \/ OrchStart /\ orchFrame
    \/ \E db_ok \in BOOLEAN : CreateCheck(db_ok) /\ orchFrame
    \/ \E raises, issues, db_ok \in BOOLEAN :
          RunMonitor(raises, issues, db_ok) /\ orchFrame
    \/ LoopEnds /\ orchFrame
    \/ \E db_ok \in BOOLEAN : CalculateStats(db_ok) /\ orchFrame
    \/ \E db_ok \in BOOLEAN : CompleteCheck(db_ok) /\ orchFrame
    \/ \E written \in BOOLEAN : GenerateReport(written) /\ orchFrame
    \/ OrchCancel /\ orchFrame

vars == << chkVars, orchVars, retryVars, dashVars >>

\* one run() of one checker; no run method of the orchestrator is active
Init ==
    /\ InitChecker
    /\ InitOrchVars /\ DashAtRest /\ RetryAtRest
    /\ mode = "all" /\ base_url = "https://example.org" /\ generate_report

orchIdle == UNCHANGED << orchVars, retryVars, dashVars >>

Next ==
    \/ \E started \in BOOLEAN : StartRun(started) /\ orchIdle
    \/ \E entry_ok \in BOOLEAN : PageHead(entry_ok) /\ orchIdle
    \/ \E o \in PageOutcomes : FetchPage(o) /\ orchIdle
    \/ ResourceHead /\ orchIdle
    \/ \E o \in VerifyOutcomes(checker) : Verify(o) /\ orchIdle
    \/ EmitPage /\ orchIdle
    \/ AfterPages /\ orchIdle
    \/ AsyncCrawlFails /\ orchIdle
    \/ \E o \in CrawlOutcomes, h \in HeadOutcomes :
          \E ord \in Orderings(IF to_crawl # <<>> /\ o.kind = "response" /\ o.status < 400
                               THEN _extract_links(Head(to_crawl)[1]) ELSE {}) :
             CrawlStep(o, h, ord) /\ orchIdle
    \/ CrawlEnds /\ orchIdle
    \/ FinishRun /\ orchIdle
    \/ SetCancel /\ orchIdle

Spec == Init /\ [][Next]_vars

\* one run method of the orchestrator; the checkers are behind monitor.run()
InitOrch ==
    /\ InitChecker
    /\ checker = "links" /\ ~use_browser
    /\ InitOrchVars /\ DashAtRest /\ RetryAtRest

SpecOrch == InitOrch /\ [][NextOrch]_vars

\* the limits tried in place of the defaults
DepthTried == 1
LinksTried == 2
CapTried == 1

\* one run() of a Link or Image checker over HTTP whose configuration sets one
\* of the limits: max_depth, max_links or the per-page cap
InitLimits ==
    /\ InitRun
    /\ budget = MaxFaults
    /\ FullPage
    /\ checker \in {"links", "images"} /\ ~use_browser
    /\ \/ /\ checker = "links"
          /\ max_depth = DepthTried /\ max_links = DefaultMaxLinks /\ max_per_page = 0
       \/ /\ checker = "links"
          /\ max_depth = DefaultMaxDepth /\ max_links = LinksTried /\ max_per_page = 0
       \/ /\ max_depth = DefaultMaxDepth /\ max_links = DefaultMaxLinks
          /\ max_per_page \in (IF checker = "links" THEN {CapTried} ELSE {0, CapTried})
    /\ InitOrchVars /\ DashAtRest /\ RetryAtRest
    /\ mode = "all" /\ base_url = "https://example.org" /\ generate_report

SpecLimits == InitLimits /\ [][Next]_vars

\* n entries of a site-wide list, in discovery order
Found(n) ==
    [k \in 1 .. n |-> Item(Ref(1000 + k, "", "found", ""), "404", << "Not Found" >>, 1, 0)]

\* run() of a checker at the end of its scan of a site on which it found up to
\* MaxFound resources of each category; the summary is still to be added
InitSummary ==
    /\ checker \in CheckerNames
    /\ cancel_event = "none"
    /\ check_alt_tags = TRUE
    /\ max_depth = DefaultMaxDepth /\ max_links = DefaultMaxLinks /\ max_per_page = 0
    /\ use_browser = FALSE
    /\ browser = "none"
    /\ pc = "finish"
    /\ page = NumPages + 1
    /\ idx = 1
    /\ \E nb \in 0 .. MaxFound, ns \in {0, MaxFound}, na \in {0, MaxFound}, nv \in {0, 1} :
          /\ broken = Found(nb)
          /\ slow_all = (IF checker = "images" THEN Found(ns) ELSE <<>>)
          /\ missing_alt_all = (IF checker = "images" THEN Found(na) ELSE <<>>)
          /\ all_valid = (IF checker = "links" THEN <<>> ELSE Found(nv))
          /\ checked = { 1000 + k : k \in 1 .. nb }
    /\ page_broken = <<>> /\ page_slow = <<>> /\ page_missing_alt = <<>>
    /\ page_valid = <<>> /\ total_time = 0
    /\ results = <<>>
    /\ to_crawl = <<>> /\ crawled = {} /\ crawl_mode = "none"
    /\ fetchLog = <<>>
    /\ faults = 0
    /\ budget = MaxFaults
    /\ FullPage
    /\ start_failed = FALSE
    /\ observed = NotObserved
    /\ InitOrchVars /\ DashAtRest /\ RetryAtRest
    /\ mode = "all" /\ base_url = "https://example.org" /\ generate_report

NextSummary == FinishRun /\ orchIdle

\* one run() of a Link or Image checker over HTTP in which one fetch more than
\* in Spec may end other than in a fast 200 response
InitTimes ==
    /\ InitRun
    /\ checker \in {"links", "images"} /\ ~use_browser
    /\ check_alt_tags
    /\ max_depth = DefaultMaxDepth /\ max_links = DefaultMaxLinks /\ max_per_page = 0
    /\ budget = MaxFaults + 1
    /\ FullPage
    /\ InitOrchVars /\ DashAtRest /\ RetryAtRest
    /\ mode = "all" /\ base_url = "https://example.org" /\ generate_report

SpecTimes == InitTimes /\ [][Next]_vars

\* one run() of a checker, in either fetch mode, with any content-scope
\* settings; every request is answered with a fast 200 response and nobody
\* asks for the run to stop
InitScope ==
    /\ InitRun
    /\ cancel_event = "none"
    /\ budget = 0
    /\ main_content_only \in BOOLEAN
    /\ ignore_header \in BOOLEAN
    /\ ignore_footer \in BOOLEAN
    /\ max_depth = DefaultMaxDepth /\ max_links = DefaultMaxLinks /\ max_per_page = 0
    /\ InitOrchVars /\ DashAtRest /\ RetryAtRest
    /\ mode = "all" /\ base_url = "https://example.org" /\ generate_report

NextScope ==
    \/ \E started \in BOOLEAN : StartRun(started) /\ orchIdle
    \/ \E entry_ok \in BOOLEAN : PageHead(entry_ok) /\ orchIdle
    \/ \E o \in PageOutcomes : FetchPage(o) /\ orchIdle
    \/ ResourceHead /\ orchIdle
    \/ \E o \in VerifyOutcomes(checker) : Verify(o) /\ orchIdle
    \/ EmitPage /\ orchIdle
    \/ AfterPages /\ orchIdle
    \/ \E o \in CrawlOutcomes, h \in HeadOutcomes :
          \E ord \in Orderings(IF to_crawl # <<>> /\ o.kind = "response" /\ o.status < 400
                               THEN _extract_links(Head(to_crawl)[1]) ELSE {}) :
             CrawlStep(o, h, ord) /\ orchIdle
    \/ CrawlEnds /\ orchIdle
    \/ FinishRun /\ orchIdle

SpecScope == InitScope /\ [][NextScope]_vars

\* LinkChecker.run() over HTTP when the stop was requested before the first
\* page: the per-page scan ends at its first test of the event and the site
\* crawl, which never tests it, follows.  Every fetch of the crawl may end in
\* any of its outcomes: the budget covers a failure of asyncio.run and of every
\* request of the crawl.
InitCrawl ==
    /\ checker = "links" /\ use_browser = FALSE /\ cancel_event = "set"
    /\ check_alt_tags = TRUE
    /\ browser = "none" /\ pc = "init" /\ page = 1 /\ idx = 1 /\ checked = {}
    /\ page_broken = <<>> /\ page_slow = <<>> /\ page_missing_alt = <<>>
    /\ page_valid = <<>> /\ total_time = 0
    /\ broken = <<>> /\ slow_all = <<>> /\ missing_alt_all = <<>> /\ all_valid = <<>>
    /\ results = <<>>
    /\ to_crawl = <<>> /\ crawled = {} /\ crawl_mode = "none"
    /\ fetchLog = <<>> /\ faults = 0 /\ start_failed = FALSE /\ observed = NotObserved
    /\ budget = 2 * NumPages + 1
    /\ FullPage
    /\ max_depth = DefaultMaxDepth /\ max_links = DefaultMaxLinks /\ max_per_page = 0
    /\ InitOrchVars /\ DashAtRest /\ RetryAtRest
    /\ mode = "all" /\ base_url = "https://example.org" /\ generate_report

NextCrawl ==
    \/ \E started \in BOOLEAN : StartRun(started) /\ orchIdle
    \/ \E entry_ok \in BOOLEAN : PageHead(entry_ok) /\ orchIdle
    \/ AfterPages /\ orchIdle
    \/ AsyncCrawlFails /\ orchIdle
    \/ \E o \in CrawlOutcomes, h \in HeadOutcomes :
          \E ord \in Orderings(IF to_crawl # <<>> /\ o.kind = "response" /\ o.status < 400
                               THEN _extract_links(Head(to_crawl)[1]) ELSE {}) :
             CrawlStep(o, h, ord) /\ orchIdle
    \/ CrawlEnds /\ orchIdle
    \/ FinishRun /\ orchIdle

\* run() is sequential code on one thread and every request has a timeout, so a
\* statement that can execute does execute: the steps of the run are weakly
\* fair
SpecCrawl == InitCrawl /\ [][NextCrawl]_vars /\ WF_vars(NextCrawl)

\* the dashboard and its requests; no checker is modelled behind the threads
InitDash ==
    /\ InitChecker
    /\ checker = "links" /\ ~use_browser /\ cancel_event = "none"
    /\ InitOrchVars /\ DashAtRest /\ RetryAtRest
    /\ mode = "all" /\ base_url = "https://example.org" /\ generate_report

dashFrame == UNCHANGED << chkVars, orchVars, retryVars >>

NextDash ==
    \/ \E v \in Vias : StartTest(v) /\ dashFrame
    \/ \E v \in Vias : StartThread(v) /\ dashFrame
    \/ ApiRunCheckFails /\ dashFrame
    \/ \E i \in 1 .. MaxChecks : CheckThreadEnds(i) /\ dashFrame
    \/ ApiStopCheck /\ dashFrame

SpecDash == InitDash /\ [][NextDash]_vars

\* retry_with_backoff is entered with some retry settings; no checker and no
\* run method of the orchestrator is active
InitRetry ==
    /\ InitChecker
    /\ checker = "links" /\ ~use_browser /\ cancel_event = "none"
    /\ InitOrchVars /\ DashAtRest
    /\ mode = "all" /\ base_url = "https://example.org" /\ generate_report
    /\ retry_config \in [max_attempts : 0 .. MaxAttemptsTried,
                          initial_delay : {1, DefaultInitialDelay},
                          exponential_backoff : BOOLEAN,
                          max_delay : {8, DefaultMaxDelay}]
    /\ rpc = "loop" /\ attempt = 0 /\ last_exception = None /\ raised = None
    /\ calls = <<>> /\ sleeps = <<>>

retryFrame == UNCHANGED << chkVars, orchVars, dashVars >>

NextRetry ==
    \/ \E ok \in BOOLEAN : RetryAttempt(ok) /\ retryFrame
    \/ RetryGivesUp /\ retryFrame

SpecRetry == InitRetry /\ [][NextRetry]_vars

SpecSummary == InitSummary /\ [][NextSummary]_vars


(***************************************************************************)
(* Properties.                                                             *)
(***************************************************************************)
PerPageOps == {"page", "verify"}

IsPrefix(s, t) == Len(s) <= Len(t) /\ SubSeq(t, 1, Len(s)) = s

\* a verification that did not end in a successful response
Unsuccessful(o) == o.kind # "response" \/ o.status >= 400

\* the Findings scoped to page p
FindingsOf(p) == { k \in DOMAIN results : results[k].url = get_full_url(p) }

\* the per-page scan is over and run() has not raised
ScanOver == pc \in {"after_pages", "crawl", "finish", "done"}

\* C1: during the per-page scan of one run() no resource URL has a
\* verification request issued for it twice, whatever the first one ended in.
C1_VerifiedAtMostOnce ==
    \A a, b \in DOMAIN fetchLog :
        (a < b /\ fetchLog[a].op = "verify" /\ fetchLog[b].op = "verify")
            => fetchLog[a].url # fetchLog[b].url

\* C2: in the per-page scan of the Link and the Image checker, once the set
\* signal has been observed no page fetch and no verification is started (at
\* most the one request in flight when the signal was set precedes it), what
\* was gathered on the page being processed is emitted, the later pages
\* produce no Finding, and the Findings emitted before are retained.
C2_CancelledScanStops ==
    checker \in {"links", "images"} =>
        /\ \A b \in DOMAIN fetchLog :
              fetchLog[b].op \in PerPageOps =>
                  /\ ~fetchLog[b].observed
                  /\ \A a \in 1 .. (b - 1) : ~fetchLog[a].cancelled
        /\ observed.seen =>
              /\ IsPrefix(observed.results, results)
              /\ \A k \in DOMAIN results :
                    results[k].url \in Pages =>
                        /\ results[k].url <= observed.page
                        /\ ~observed.inner => results[k].url < observed.page
              /\ (observed.inner /\ page > observed.page) =>
                    /\ observed.page_broken # <<>> =>
                          \E k \in FindingsOf(observed.page) :
                              /\ results[k].status = "error"
                              /\ results[k].items = observed.page_broken
                    /\ observed.page_slow # <<>> =>
                          \E k \in FindingsOf(observed.page) :
                              /\ results[k].severity = "medium"
                              /\ results[k].items = observed.page_slow
                    /\ observed.page_missing_alt # <<>> =>
                          \E k \in FindingsOf(observed.page) :
                              /\ results[k].severity = "low"
                              /\ results[k].items = observed.page_missing_alt

\* the signal is observed before a resource of page 2, after a broken resource
\* was gathered there and with the Findings of page 1 emitted; the run ends
C2_Witness ==
    /\ checker \in {"links", "images"}
    /\ observed.seen /\ observed.inner
    /\ observed.page = 2
    /\ observed.page_broken # <<>>
    /\ observed.results # <<>>
    /\ pc = "done"

\* C3: once the signal is set the Video checker starts no page fetch and no
\* video verification after the request in flight, and the pages not yet
\* started produce no Finding.
C3_VideoStopsOnCancel ==
    checker = "videos" =>
        \A a \in DOMAIN fetchLog :
            fetchLog[a].cancelled =>
                /\ \A b \in (a + 1) .. Len(fetchLog) : fetchLog[b].op \notin PerPageOps
                /\ \A k \in DOMAIN results :
                      results[k].url \in Pages => results[k].url <= fetchLog[a].page

\* C4: once the signal is set the site crawl of the Link checker issues no
\* fetch: none after a cancelled per-page scan, none after the request in
\* flight when the signal was set.
C4_CrawlStopsOnCancel ==
    checker = "links" =>
        \A b \in DOMAIN fetchLog :
            fetchLog[b].op = "crawl" =>
                /\ ~fetchLog[b].observed
                /\ \A a \in 1 .. (b - 1) : ~fetchLog[a].cancelled

\* C8: a page whose fetch failed (a status other than 200, a failed
\* navigation, an exception) has no resource verified and exactly one Finding.
C8_FailedFetchOneFinding ==
    \A a \in DOMAIN fetchLog :
        (/\ fetchLog[a].op = "page"
         /\ ~(fetchLog[a].outcome.kind = "response" /\ fetchLog[a].outcome.status = 200)
         /\ page > fetchLog[a].page)
        => /\ Cardinality(FindingsOf(fetchLog[a].page)) = 1
           /\ \A b \in DOMAIN fetchLog :
                 fetchLog[b].op = "verify" => fetchLog[b].page # fetchLog[a].page

\* a request after which the processing of the page raised: the page fetch
\* raised, or the classification of the resource did
Raising(e) ==
    \/ e.op = "page" /\ e.outcome.kind # "response"
    \/ e.op = "verify" /\ e.outcome.kind = "invalid_url"

\* C9: a page whose fetch, extraction or classification raised has exactly one
\* Finding, an error; the Findings emitted before are kept, the scan goes on to
\* the next pages, and run() does not raise because of it.
C9_PageExceptionIsolated ==
    \A a \in DOMAIN fetchLog :
        Raising(fetchLog[a]) =>
            LET p == fetchLog[a].page
            IN /\ page > p
               /\ Cardinality(FindingsOf(p)) = 1
               /\ \A k \in FindingsOf(p) : results[k].status = "error"
               /\ IsPrefix(fetchLog[a].results, results)
               /\ Len(results) > Len(fetchLog[a].results)
               /\ (ScanOver /\ ~observed.seen) =>
                     \A q \in (p + 1) .. NumPages :
                         \E b \in DOMAIN fetchLog :
                             fetchLog[b].op = "page" /\ fetchLog[b].page = q
               /\ pc = "raised" =>
                     \A b \in DOMAIN fetchLog : fetchLog[b].page # page

\* the processing of page 2 raised with Findings of page 1 emitted, page 3 was
\* scanned and the run ended
C9_Witness ==
    /\ pc = "done"
    /\ \E a \in DOMAIN fetchLog :
          /\ Raising(fetchLog[a])
          /\ fetchLog[a].page = 2
          /\ fetchLog[a].results # <<>>
    /\ FindingsOf(3) # {}

\* C10: a resource whose verification did not end in a successful response,
\* on a page whose processing did not raise, is an entry, with a status
\* message that is not empty, of the broken-resource Finding of that page.
C10_FailuresRecorded ==
    \A a \in DOMAIN fetchLog :
        (/\ fetchLog[a].op = "verify"
         /\ Unsuccessful(fetchLog[a].outcome)
         /\ \A b \in DOMAIN fetchLog :
               Raising(fetchLog[b]) => fetchLog[b].page # fetchLog[a].page
         /\ page > fetchLog[a].page)
        => \E k \in FindingsOf(fetchLog[a].page) :
              /\ results[k].status = "error"
              /\ \E n \in DOMAIN results[k].items :
                    /\ results[k].items[n].url = fetchLog[a].url
                    /\ ~IsEmptyMessage(results[k].items[n].status_message)

\* the error results the run method added for monitor i
ErrorsFor(i) ==
    { k \in DOMAIN all_results :
        all_results[k].by = "orchestrator" /\ all_results[k].monitor_type = monitors[i] }

\* C5 as stated: in run_all_checks a monitor whose run() raised has exactly one
\* error result added for it, and every monitor after it is run.
C5_EveryLaterMonitorRuns ==
    mode = "all" =>
        \A i \in failed :
            /\ Cardinality(ErrorsFor(i)) = 1
            /\ opc # "loop" => \A j \in (i + 1) .. Len(monitors) : j \in ran

\* C5: in run_all_checks a monitor whose run() raised has exactly one error
\* result added for it and the loop goes on with the next monitor: every
\* monitor after it is run, up to the one before which the signal is found set.
C5_FailureIsolated ==
    mode = "all" =>
        /\ stopped_at # 0 => is_cancelled
        /\ \A i \in failed :
              /\ Cardinality(ErrorsFor(i)) = 1
              /\ \A j \in (i + 1) .. Len(monitors) :
                    \/ j \in ran
                    \/ opc = "loop" /\ j >= mon
                    \/ stopped_at # 0 /\ j >= stopped_at

\* the run() of the third monitor raised, the six after it were run and the
\* run returned its statistics
C5_Witness ==
    /\ mode = "all"
    /\ 3 \in failed
    /\ ran = 1 .. 9
    /\ opc = "returned" /\ ret = "stats"

\* C6: with a configured URL no run method raises, and a run that ended
\* returned the statistics, with a report when one was requested.
C6_RunAlwaysReturnsStats ==
    base_url \notin {"", Placeholder} =>
        /\ opc # "raised"
        /\ opc = "returned" =>
              /\ ret = "stats"
              /\ generate_report => report_path = "written"

FailureKinds == {"timeout", "ssl", "connection", "other"}

\* the resource of page p whose URL is u
RefOf(c, p, u) ==
    LET list == Resources(c, p)
    IN list[CHOOSE k \in DOMAIN list : list[k].url = u]

\* the status values under which u is listed in the error Findings of page p
RecordedStatus(p, u) ==
    UNION { { results[k].items[n].status_code :
                n \in { m \in DOMAIN results[k].items : results[k].items[m].url = u } } :
            k \in { j \in FindingsOf(p) : results[j].status = "error" } }

\* the status values a checker gives a failure of kind kd of resource ref
StatusOfKind(c, ref, p, kd) ==
    UNION { { Classify(c, ref, e, p).broken[n].status_code :
                n \in DOMAIN Classify(c, ref, e, p).broken } :
            e \in { x \in Exceptions : x.kind = kd } }

\* C11: a verification that ended in a timeout, an SSL failure, a connection
\* failure or another exception is listed in the page's Finding with a status
\* value that the checker gives to no failure of another kind (a timeout in
\* particular not with the status of a generic error), and the request is not
\* issued again for the resource on that page.
C11_FailureKindsDistinct ==
    \A a \in DOMAIN fetchLog :
        (/\ fetchLog[a].op = "verify"
         /\ fetchLog[a].outcome.kind \in FailureKinds
         /\ page > fetchLog[a].page)
        => LET p   == fetchLog[a].page
               u   == fetchLog[a].url
               ref == RefOf(checker, p, u)
           IN /\ \A kd \in FailureKinds \ {fetchLog[a].outcome.kind} :
                    RecordedStatus(p, u) \cap StatusOfKind(checker, ref, p, kd) = {}
              /\ \A b \in DOMAIN fetchLog \ {a} :
                    ~(fetchLog[b].op = "verify" /\ fetchLog[b].url = u
                      /\ fetchLog[b].page = p)

\* no request of page p was followed by an exception out of the page's try
Completed(p) ==
    /\ page > p
    /\ \A b \in DOMAIN fetchLog : Raising(fetchLog[b]) => fetchLog[b].page # p

\* the error Findings of page p
ErrorFindingsOf(p) == { k \in FindingsOf(p) : results[k].status = "error" }

VerifiedOn(p) == { a \in DOMAIN fetchLog : fetchLog[a].op = "verify" /\ fetchLog[a].page = p }

\* an image request that ended in a loaded image
Loaded(o) ==
    o.kind = "response" /\ o.status < 400 /\ (o.ctype = "image/png" \/ o.ctype = "")

\* the Findings of page p with status st and severity sev
FindingsWith(p, st, sev) ==
    { k \in FindingsOf(p) : results[k].status = st /\ results[k].severity = sev }

\* C13: a page of the Image checker whose images all loaded, k >= 1 of them
\* slower than the threshold, has one warning Finding that lists exactly the k
\* slow images and one success Finding that reports the page's images.
C13_SlowPageKeepsSuccess ==
    checker = "images" =>
        \A p \in Pages :
            LET slow == { fetchLog[a].url :
                            a \in { b \in VerifiedOn(p) : fetchLog[b].outcome.ms > 3000 } }
            IN (/\ Completed(p)
                /\ ~(observed.seen /\ observed.page = p)
                /\ \A a \in VerifiedOn(p) : Loaded(fetchLog[a].outcome)
                /\ slow # {})
               => /\ Cardinality(FindingsWith(p, "warning", "medium")) = 1
                  /\ \A k \in FindingsWith(p, "warning", "medium") :
                        { results[k].items[n].url : n \in DOMAIN results[k].items } = slow
                  /\ Cardinality(FindingsWith(p, "success", "info")) = 1
                  /\ \A k \in FindingsWith(p, "success", "info") :
                        results[k].total = Len(Images(p))

\* the Findings a step added to the results
Added == SubSeq(results', Len(results) + 1, Len(results'))

\* how many of the Findings of the sequence fs have status st
CountStatus(fs, st) == Cardinality({ k \in DOMAIN fs : fs[k].status = st })

\* the sequence fs has a Finding for the bucket exactly when the bucket is not
\* empty, only one, and it lists the bucket
OnePerBucket(fs, bucket, st, sev) ==
    LET ks == { k \in DOMAIN fs : fs[k].status = st /\ fs[k].severity = sev }
    IN /\ Cardinality(ks) = (IF bucket # <<>> THEN 1 ELSE 0)
       /\ \A k \in ks : fs[k].items = bucket

\* C14: the step that ends the scan of a page adds, for that page, exactly one
\* Finding for each bucket that is not empty (broken, slow, and missing-alt
\* for images), none for an empty bucket, and one success Finding when every
\* bucket of the page is empty.
C14_EmitStep ==
    (pc = "page_emit" /\ pc' = "page_head") =>
        /\ \A k \in DOMAIN Added : Added[k].url = get_full_url(page)
        /\ OnePerBucket(Added, page_broken, "error", "high")
        /\ OnePerBucket(Added, page_slow, "warning", "medium")
        /\ OnePerBucket(Added, page_missing_alt, "warning", "low")
        /\ (page_broken = <<>> /\ page_slow = <<>> /\ page_missing_alt = <<>>)
              => CountStatus(Added, "success") = 1

C14_OneFindingPerBucket == [][C14_EmitStep]_vars

\* the page fetches that returned the page (status 200)
Fetched(p) ==
    { a \in DOMAIN fetchLog :
        /\ fetchLog[a].op = "page" /\ fetchLog[a].page = p
        /\ fetchLog[a].outcome.kind = "response" /\ fetchLog[a].outcome.status = 200 }

\* C15: a page that was fetched and whose scan is over has at least one
\* Finding scoped to it, a page without any resource included.
C15_ScannedPageHasFinding ==
    \A p \in Pages : (Fetched(p) # {} /\ page > p) => FindingsOf(p) # {}

\* a page without any resource was fetched and scanned, and the run ended
C15_Witness ==
    /\ pc = "done"
    /\ \E p \in Pages :
          /\ Resources(checker, p) = <<>>
          /\ Fetched(p) # {}
          /\ FindingsOf(p) # {}

\* the verifications, on page p, of an image without alt text
VerifiedWithoutAlt(p) ==
    { a \in VerifiedOn(p) : RefOf(checker, p, fetchLog[a].url).alt = "" }

\* C16: with check_alt_tags an image without alt text that was verified on a
\* page is listed in the page's low-severity Finding whatever its own request
\* ended in; without check_alt_tags no low-severity Finding is emitted.
C16_MissingAltListed ==
    checker = "images" =>
        /\ check_alt_tags =>
              \A p \in Pages :
                  Completed(p) =>
                      \A a \in VerifiedWithoutAlt(p) :
                          /\ Cardinality(FindingsWith(p, "warning", "low")) = 1
                          /\ \A k \in FindingsWith(p, "warning", "low") :
                                \E n \in DOMAIN results[k].items :
                                    results[k].items[n].url = fetchLog[a].url
        /\ ~check_alt_tags =>
              \A k \in DOMAIN results : results[k].severity # "low"

\* with check_alt_tags the request of an image without alt text did not end in
\* a loaded image, the image is in the page's missing-alt Finding, the run ended
C16_Witness ==
    /\ checker = "images" /\ check_alt_tags
    /\ pc = "done"
    /\ \E p \in Pages :
          \E a \in VerifiedWithoutAlt(p) :
              /\ ~Loaded(fetchLog[a].outcome)
              /\ \E k \in FindingsWith(p, "warning", "low") :
                    \E n \in DOMAIN results[k].items :
                        results[k].items[n].url = fetchLog[a].url

\* the messages that say "not found" and those that say "private or embedding
\* disabled"
NotFoundMessages == { << "Video not found or deleted" >>, << "Video not found" >> }
PrivateMessages ==
    { << "Video is private or restricted" >>, << "Video embedding disabled" >>,
      << "Video is private" >> }

\* the entries of url u in the Findings ks
EntriesOf(ks, u) ==
    UNION { { results[k].items[n] :
                n \in { m \in DOMAIN results[k].items : results[k].items[m].url = u } } :
            k \in ks }

\* the site-wide error Findings
SiteErrorFindings == { k \in DOMAIN results : results[k].url = NoUrl /\ results[k].status = "error" }

\* the oEmbed response decides the outcome of a YouTube or Vimeo video, the
\* statuses for which IsPrivate holds meaning private or embedding disabled
OEmbedDecides(IsPrivate(_, _)) ==
    checker = "videos" =>
        \A a \in DOMAIN fetchLog :
            (/\ fetchLog[a].op = "verify"
             /\ RefOf(checker, fetchLog[a].page, fetchLog[a].url).type \in {"youtube", "vimeo"}
             /\ page > fetchLog[a].page)
            => LET p    == fetchLog[a].page
                   u    == fetchLog[a].url
                   o    == fetchLog[a].outcome
                   type == RefOf(checker, p, u).type
                   here == EntriesOf(FindingsWith(p, "error", "high"), u)
                   site == EntriesOf(SiteErrorFindings, u)
               IN /\ \A k \in FindingsOf(p) : results[k].message # "check failed for page"
                  /\ IF o.kind = "response" /\ o.status = 200
                     THEN here = {} /\ site = {}
                     ELSE /\ Cardinality(here) = 1
                          /\ (/\ pc = "done"
                              /\ \E n \in 1 .. PreviewCap :
                                    n <= Len(broken) /\ broken[n].url = u)
                                => site # {}
                          /\ \A e \in here :
                                /\ ~IsEmptyMessage(e.status_message)
                                /\ (o.kind = "response" /\ o.status = 404)
                                      <=> e.status_message \in NotFoundMessages
                                /\ (o.kind = "response" /\ IsPrivate(type, o.status))
                                      <=> e.status_message \in PrivateMessages
                                /\ (type = "youtube" /\ o.kind = "response" /\ o.status = 404)
                                      => e.status_message = << "Video not found or deleted" >>

PrivateAsStated(type, status) == status \in {401, 403}

\* 401 is told apart by _check_youtube_video only
PrivateByProvider(type, status) == status = 403 \/ (type = "youtube" /\ status = 401)

\* C17 as stated: for a YouTube or Vimeo video 200 means available, 404 not
\* found, 401 and 403 private or embedding disabled, anything else unavailable
\* with a message; an unavailable video is in the page's and in the site-wide
\* broken-videos Finding and never a page-level "failed to check" Finding.
C17_OEmbedDecidesAsStated == OEmbedDecides(PrivateAsStated)

\* C17: the same, 403 and, for YouTube only, 401 meaning private or embedding
\* disabled; a 401 from Vimeo is one of the other statuses.
C17_OEmbedDecides == OEmbedDecides(PrivateByProvider)

\* a YouTube or Vimeo video was unavailable, it is in the broken-videos
\* Finding of its page and in the site-wide one, and the run ended
C17_Witness ==
    /\ checker = "videos"
    /\ pc = "done"
    /\ \E a \in DOMAIN fetchLog :
          /\ fetchLog[a].op = "verify"
          /\ RefOf(checker, fetchLog[a].page, fetchLog[a].url).type \in {"youtube", "vimeo"}
          /\ fetchLog[a].outcome.kind # "response"
          /\ EntriesOf(FindingsWith(fetchLog[a].page, "error", "high"), fetchLog[a].url) # {}
          /\ EntriesOf(SiteErrorFindings, fetchLog[a].url) # {}

Statuses == {"success", "warning", "error", "critical"}
Severities == {"critical", "high", "medium", "low"}

\* C18: every Finding of the checker has one of the four statuses, and a
\* Finding that is not a success has one of the four severities.
C18_FindingsClassified ==
    \A k \in DOMAIN results :
        /\ results[k].status \in Statuses
        /\ results[k].status # "success" => results[k].severity \in Severities

\* C19: when the browser was asked for and did not start, run() goes on
\* without it (use_browser off, no browser object), does not raise because of
\* it, and a run that no stop request cut short fetched every configured
\* page and returned Findings.
C19_StartFailureFailsOpen ==
    start_failed =>
        /\ ~use_browser /\ browser = "none"
        /\ pc = "raised" => faults > 1
        /\ (pc = "done" /\ ~observed.seen) =>
              /\ \A p \in Pages :
                    \E a \in DOMAIN fetchLog :
                        fetchLog[a].op = "page" /\ fetchLog[a].page = p
              /\ \A p \in Pages : Fetched(p) # {} => FindingsOf(p) # {}
              /\ results # <<>>

\* the browser did not start, every page was fetched over HTTP and the run
\* returned its Findings
C19_Witness ==
    /\ start_failed
    /\ pc = "done"
    /\ \A p \in Pages : Fetched(p) # {} /\ FindingsOf(p) # {}

\* the results of the run that are not a success and have severity sev
IssuesOfSeverity(sev) ==
    { k \in DOMAIN all_results :
        all_results[k].status # "success" /\ all_results[k].severity = sev }

\* the statistics have been computed
StatsComputed == opc \in {"complete", "report"} \/ (opc = "returned" /\ ret = "stats")

\* C20: in the statistics of a run each of the four severity counts is the
\* number of the run's results, those added for failed monitors included,
\* whose status is not success and whose severity is that one, and
\* total_issues is the sum of the four counts.
C20_SeverityCounts ==
    StatsComputed =>
        /\ stats.critical_issues = Cardinality(IssuesOfSeverity("critical"))
        /\ stats.high_issues = Cardinality(IssuesOfSeverity("high"))
        /\ stats.medium_issues = Cardinality(IssuesOfSeverity("medium"))
        /\ stats.low_issues = Cardinality(IssuesOfSeverity("low"))
        /\ stats.total_issues = stats.critical_issues + stats.high_issues
                                + stats.medium_issues + stats.low_issues
        /\ stats.total_checks = Len(all_results)

\* run_all_checks returned statistics over a critical result, the issues of a
\* checker and the error result of a monitor that failed
C20_Witness ==
    /\ mode = "all"
    /\ opc = "returned" /\ ret = "stats"
    /\ failed # {}
    /\ stats.critical_issues = 1
    /\ stats.high_issues >= 2
    /\ stats.low_issues >= 1

\* the requests of the site crawl: the fetch of a dequeued URL and the
\* existence check of an external link
CrawlOps == {"crawl", "head"}

\* C21: in a Link checker run over HTTP a URL whose verification in the
\* per-page scan got a response, and so is in the checked set, has no request
\* issued for it by the site crawl.
C21_CrawlSkipsChecked ==
    checker = "links" =>
        \A a, b \in DOMAIN fetchLog :
            (/\ fetchLog[a].op = "verify"
             /\ fetchLog[a].outcome.kind = "response"
             /\ fetchLog[b].op \in CrawlOps)
            => fetchLog[a].url # fetchLog[b].url

\* C22: in every run mode the monitors constructed for a run that has a
\* cancellation signal were handed it, so that with the signal set
\* is_cancelled() is true in the checker that is running.
C22_SignalHanded ==
    (monitors # <<>> /\ cancel_event # "none") => monitor_event = "shared"

\* the order of the checkers of a full run
FullOrder == << "uptime", "forms", "links", "images", "videos", "wordpress",
                "performance", "content", "seo" >>

RunOver == pc \in {"done", "raised"}

C25_PhaseOrder ==
    /\ \A b \in DOMAIN fetchLog :
          fetchLog[b].op \in CrawlOps =>
              /\ checker = "links" /\ ~use_browser
              /\ fetchLog[b].browser = "none"
              /\ fetchLog[b].phase = "crawl"
              /\ \A a \in DOMAIN fetchLog :
                    fetchLog[a].op \in PerPageOps => a < b
    /\ \A a \in DOMAIN fetchLog :
          fetchLog[a].op \in PerPageOps => fetchLog[a].phase \in {"page_fetch", "res_verify"}
    /\ \A i, j \in DOMAIN results :
          (i < j /\ results[i].url = NoUrl) => results[j].url = NoUrl
    /\ (\E k \in DOMAIN results : results[k].url = NoUrl) => pc = "done"

\* a Link checker run over HTTP scanned its pages, crawled the site and
\* added its summary
C25_Witness ==
    /\ checker = "links" /\ pc = "done"
    /\ \E a \in DOMAIN fetchLog : fetchLog[a].op = "verify"
    /\ \E b \in DOMAIN fetchLog : fetchLog[b].op = "crawl"
    /\ \E b \in DOMAIN fetchLog : fetchLog[b].op = "head"
    /\ \E k \in DOMAIN results : results[k].url = NoUrl
    /\ \E k \in DOMAIN results : results[k].url \in Pages

\* the requests of the site crawl for the pages it dequeued, in order
CrawlFetches == { b \in DOMAIN fetchLog : fetchLog[b].op = "crawl" }

\* C26: the site crawl starts at the base URL with depth 0, fetches internal
\* URLs in non-decreasing depth order, fetches no URL deeper than max_depth
\* and fetches each URL at most once.
C26_BreadthFirstBounded ==
    /\ \A b \in CrawlFetches :
          /\ _is_internal(fetchLog[b].url)
          /\ fetchLog[b].depth <= max_depth
          /\ (\A a \in CrawlFetches : a >= b) =>
                fetchLog[b].url = BaseUrl /\ fetchLog[b].depth = 0
    /\ \A a, b \in CrawlFetches :
          a < b => /\ fetchLog[a].depth <= fetchLog[b].depth
                   /\ fetchLog[a].url # fetchLog[b].url
    /\ (pc = "crawl" /\ crawled = {}) => to_crawl = << << BaseUrl, 0 >> >>

\* a crawl with max_depth 1 ended after it fetched the base URL and the page
\* linked from it and left out the page one level deeper
C26_Witness ==
    /\ pc = "done" /\ max_depth = DepthTried
    /\ \E b \in CrawlFetches : fetchLog[b].depth = max_depth
    /\ \E u \in Pages : u \notin crawled
    /\ Cardinality(crawled) > 1

\* the requests of the site crawl: page fetches and checks of external links
CrawlRequests == { b \in DOMAIN fetchLog : fetchLog[b].op \in CrawlOps }

\* C27: the site crawl issues at most max_links requests in total, page
\* fetches and checks of external links together, and when the crawl has
\* issued a request the checked set holds at most max_links URLs.
C27_CrawlBoundedByMaxLinks ==
    /\ Cardinality(CrawlRequests) <= max_links
    /\ CrawlRequests # {} => Cardinality(checked) <= max_links

\* the checks of external links whose request raised
HeadsRaised ==
    { b \in DOMAIN fetchLog : fetchLog[b].op = "head" /\ fetchLog[b].outcome.kind # "response" }

\* the entries the crawl's external checks added to the broken list
CrawlExternalBroken ==
    { k \in DOMAIN broken : broken[k].url = ExternalUrl /\ broken[k].text = "" }

\* C28: during the site crawl no external URL is in the queue, is fetched or
\* has its links extracted; it gets a HEAD request only; a HEAD request that
\* raises adds nothing to the broken list (the list holds one entry for each
\* HEAD request answered with a status >= 400) and the crawl goes on: a crawl
\* whose page fetches all returned a page ends with every page crawled.
C28_ExternalOnlyChecked ==
    /\ \A k \in DOMAIN to_crawl : _is_internal(to_crawl[k][1])
    /\ ExternalUrl \notin crawled
    /\ \A b \in DOMAIN fetchLog :
          (fetchLog[b].phase = "crawl" /\ fetchLog[b].url = ExternalUrl) =>
              /\ fetchLog[b].op = "head"
              /\ b > 1 /\ fetchLog[b - 1].op = "crawl" /\ _is_internal(fetchLog[b - 1].url)
    /\ Cardinality(CrawlExternalBroken)
          = Cardinality({ b \in DOMAIN fetchLog :
                            /\ fetchLog[b].op = "head"
                            /\ fetchLog[b].outcome.kind = "response"
                            /\ fetchLog[b].outcome.status >= 400 })
    /\ HeadsRaised # {} =>
          /\ pc # "raised"
          /\ (/\ pc \in {"finish", "done"}
              /\ \A b \in CrawlFetches : fetchLog[b].outcome = OkFast("links"))
                => crawled = Pages

\* the check of the external link raised, the broken list stayed empty and the
\* crawl went on to fetch the other pages
C28_Witness ==
    /\ pc = "done" /\ HeadsRaised # {}
    /\ broken = <<>>
    /\ crawled = Pages
    /\ \E a \in HeadsRaised, b \in CrawlFetches : a < b

\* the URLs of the first n entries of a list
FirstUrls(list, n) == { list[k].url : k \in { j \in DOMAIN list : j <= n } }

\* the Findings of page p that report the page's resources
CountingFindingsOf(p) ==
    { k \in FindingsOf(p) : results[k].message \in {"broken on page", "all valid on page"} }

\* C29: with a per-page cap c > 0 at most c resources are verified on a page,
\* all among the first c of the page's extracted list, and the Findings of a
\* page on which resources were skipped report the length of the extracted
\* list, which with c tells how many were skipped; with the cap 0 every
\* resource of a page that was fetched and scanned to its end was verified
\* there or was in the checked set.
C29_PerPageCap ==
    \A p \in Pages :
        LET list == Resources(checker, p)
        IN /\ max_per_page > 0 =>
                /\ Cardinality(VerifiedOn(p)) <= max_per_page
                /\ \A a \in VerifiedOn(p) : fetchLog[a].url \in FirstUrls(list, max_per_page)
                /\ (Len(list) > max_per_page /\ ~(observed.seen /\ observed.page = p)) =>
                      \A k \in CountingFindingsOf(p) : results[k].total = Len(list)
           /\ (/\ max_per_page = 0
               /\ Fetched(p) # {} /\ Completed(p)
               /\ ~(observed.seen /\ observed.page = p)) =>
                \A n \in DOMAIN list :
                    \/ list[n].url \in checked
                    \/ \E a \in VerifiedOn(p) : fetchLog[a].url = list[n].url

\* the site-wide list a summary Finding of the given severity reports
SiteList(sev) ==
    CASE sev = "high"   -> broken
      [] sev = "medium" -> slow_all
      [] OTHER          -> missing_alt_all

\* the site-wide Findings that list resources
SitePreviews ==
    { k \in DOMAIN results :
        results[k].url = NoUrl /\ results[k].status \in {"error", "warning"} }

\* C30: each site-wide summary Finding lists at most 20 items, the first 20
\* of its category in discovery order, and states the full number of items
\* of that category.
C30_SummaryPreview ==
    pc = "done" =>
        \A k \in SitePreviews :
            LET list == SiteList(results[k].severity)
            IN /\ Len(results[k].items) <= PreviewCap
               /\ results[k].items = Take(list, PreviewCap)
               /\ results[k].count = Len(list)

\* the results of the run that carry a latency value (response_time is not None)
WithLatency == { k \in DOMAIN all_results : all_results[k].response_time # NoTime }

\* C31: the mean latency of a run's statistics is the arithmetic mean (here
\* in hundredths) of the latency values of all results that carry one, a
\* latency of 0 included, and 0 when no result carries one.
C31_MeanLatency ==
    StatsComputed =>
        LET n == Cardinality(WithLatency)
        IN stats.avg_response_time
              = (IF n = 0 THEN 0 ELSE (200 * SumTimes(all_results) + n) \div (2 * n))

\* the verifications on page p that ended in a resource that was fetched: a
\* link answered with a status below 400, an image that loaded
FetchedOn(p) ==
    { a \in VerifiedOn(p) :
        IF checker = "images" THEN Loaded(fetchLog[a].outcome)
        ELSE fetchLog[a].outcome.kind = "response" /\ fetchLog[a].outcome.status < 400 }

\* the sum of the times of the requests S of the log
RECURSIVE SumMs(_)
SumMs(S) ==
    IF S = {} THEN 0
    ELSE LET a == CHOOSE b \in S : TRUE
         IN fetchLog[a].outcome.ms + SumMs(S \ {a})

\* C32: the average a Finding of a page of the Link or Image checker reports
\* is the sum of the times of the page's fetched resources divided by their
\* number, rounded, and 0 when there is none; the time of a resource
\* classified as broken is not part of it.
C32_AverageOverFetched ==
    checker \in {"links", "images"} =>
        \A p \in Pages : \A k \in FindingsOf(p) :
            (results[k].avg # NoTime /\ ~(observed.seen /\ observed.page = p)) =>
                results[k].avg = Average(SumMs(FetchedOn(p)), Cardinality(FetchedOn(p)))

\* the tags of page p for the checker, as the page's HTML has them
Tags(c, p) ==
    CASE c = "links"  -> AnchorTags(p)
      [] c = "images" -> ImageTags(p)
      [] OTHER        -> VideoTags(p)

\* the URLs of the tags of page p that are inside the configured scope
InScope(c, p) ==
    LET kept == _get_content_scope(p, Tags(c, p), main_content_only,
                                   ignore_header, ignore_footer)
    IN { kept[k].url : k \in DOMAIN kept }

\* C33: in every checker and in both fetch modes a resource is verified on a
\* page only if one of its tags on that page is inside the configured scope:
\* the main element with main_content_only when the page has one, else the
\* page without the header and footer regions that are to be ignored.
C33_ScopeBeforeExtraction ==
    \A a \in DOMAIN fetchLog :
        fetchLog[a].op = "verify" => fetchLog[a].url \in InScope(checker, fetchLog[a].page)

\* the calls of func that raised
FailedCalls == { i \in DOMAIN calls : ~calls[i] }

\* C34: retry_with_backoff calls func at most max_attempts times and not
\* again after a call that returned; after the k-th failed attempt (k from 0)
\* it has slept min(initial_delay * 2^k, max_delay) seconds when another
\* attempt follows and not at all otherwise; it returns when a call returned
\* and, after max_attempts failed attempts, raises the exception of the last
\* attempt.
C34_RetryContract ==
    rpc # "rest" =>
        /\ Len(calls) <= retry_config.max_attempts
        /\ \A i \in DOMAIN calls : calls[i] => i = Len(calls)
        /\ \/ Len(sleeps) = Min(Cardinality(FailedCalls), retry_config.max_attempts - 1)
           \/ (Len(sleeps) = 0 /\ retry_config.max_attempts = 0)
        /\ \A k \in DOMAIN sleeps :
              sleeps[k] = Min(retry_config.initial_delay * Pow2(k - 1), retry_config.max_delay)
        /\ rpc = "returned" <=> (calls # <<>> /\ calls[Len(calls)])
        /\ rpc = "raised" =>
              /\ Cardinality(FailedCalls) = retry_config.max_attempts
              /\ raised = Len(calls) /\ raised \in FailedCalls

\* the last Finding of the results is the Link Checker's site-wide one
SiteWideLast ==
    /\ results # <<>>
    /\ results[Len(results)].monitor_type = "links"
    /\ results[Len(results)].url = NoUrl
    /\ results[Len(results)].message \in {"broken across site", "all valid"}

\* C35: once the Link Checker's site crawl has started, whatever its fetches
\* end in, the crawl ends and run() returns with the site-wide summary
\* Finding as its last Finding.
C35_CrawlTerminates == (pc = "crawl") ~> (pc = "done" /\ SiteWideLast)

\* a crawl that went round the cycle of the site and met a timeout, an error
\* status and a refused external check has ended, and run() has returned
C35_Witness ==
    /\ pc = "done" /\ SiteWideLast
    /\ crawled = Pages
    /\ \E k \in DOMAIN fetchLog :
          fetchLog[k].op \in {"crawl", "head"} /\ fetchLog[k].outcome # OkFast("links")

\* the resource was requested by the per-page scan of this run
VerifiedInRun(u) == \E a \in DOMAIN fetchLog : fetchLog[a].op = "verify" /\ fetchLog[a].url = u

\* the per-page scan of this run found the resource broken
FoundBroken(ref) ==
    \E a \in DOMAIN fetchLog :
        /\ fetchLog[a].op = "verify" /\ fetchLog[a].url = ref.url
        /\ Classify(checker, ref, fetchLog[a].outcome, fetchLog[a].page).site_broken # <<>>

\* C36: a page of a Link or Image checker run has the success Finding
\* "All N ... valid on <page>" only if each of the N resources of the page's
\* list was verified during the run and none of them was found broken, the
\* resources passed over as already checked and those after the point where
\* the cancellation was observed included.
C36_SuccessMeansAllValid ==
    checker \in {"links", "images"} =>
        \A p \in Pages : \A k \in FindingsOf(p) :
            results[k].message = "all valid on page" =>
                \A n \in DOMAIN Scanned(checker, p) :
                    /\ VerifiedInRun(Scanned(checker, p)[n].url)
                    /\ ~FoundBroken(Scanned(checker, p)[n])

\* the URLs of the site-wide broken list
BrokenUrls == { broken[k].url : k \in DOMAIN broken }

\* C37: when a Link Checker run is over, no URL has two entries in the
\* site-wide broken list, and the number of broken links the site-wide Finding
\* states is the number of distinct URLs that the per-page scan and the crawl
\* found broken.
C37_OneEntryPerUrl ==
    (checker = "links" /\ pc = "done") =>
        /\ \A a, b \in DOMAIN broken : broken[a].url = broken[b].url => a = b
        /\ broken # <<>> => results[Len(results)].count = Cardinality(BrokenUrls)

\* the URLs a request was made for in order to verify them: by the per-page
\* scan, by the crawl and by the crawl's check of external links
Attempted == { fetchLog[a].url : a \in { b \in DOMAIN fetchLog : fetchLog[b].op \in {"verify", "crawl", "head"} } }

\* C38: in the site-wide Finding of a Link Checker run total_checked is the
\* number of distinct URLs whose verification was attempted, and the number
\* of broken links it states is not above total_checked.
C38_TotalChecked ==
    (checker = "links" /\ pc = "done") =>
        /\ results[Len(results)].total = Cardinality(Attempted)
        /\ results[Len(results)].count <= results[Len(results)].total

\* the check threads that are executing
Executing == { i \in DOMAIN threads : threads[i].state = "executing" }

\* C39: whatever the order of the start and stop requests, at most one check
\* thread is executing at any time, after a stop request as well.
C39_OneCheckAtATime == Cardinality(Executing) <= 1

====
